---------------------------- MODULE Spec2Model ----------------------------
(***************************************************************************)
(* The thread state coordinator and the allocation safepoint of vm.cpp:    *)
(* enter (lines 193-290), maybeYieldAndMaybeCollect (292-314), allocate    *)
(* (316-328) and collect/iterate (148-191), run by NThreads mutator        *)
(* threads over one Machine.                                               *)
(*                                                                         *)
(* Every thread has a call stack of frames [pc, arg]; one action is one    *)
(* run of straight-line code between two points where the thread calls,    *)
(* returns, blocks on the state monitor or waits on it.                    *)
(*                                                                         *)
(* System::Monitor is declared in system.h, which is not part of the       *)
(* sources at hand.  It is modelled as a monitor with an owner and a       *)
(* nesting depth, whose wait() gives the monitor up at every depth and     *)
(* takes it back at the same depth.  vm.cpp acquires the state monitor in  *)
(* nested calls, so a monitor without a depth would stop the thread at     *)
(* the first nested ACQUIRE_MONITOR.                                       *)
(***************************************************************************)
EXTENDS Integers, Sequences, FiniteSets, TLC

\* ------------------------------------------------------------------ bounds
\* Number of mutator threads of the machine.
NThreads == 2

\* Thread::HeapSize, vm.cpp:76.
HeapSize == 64 * 1024

Threads == 1..NThreads
NULL == 0

\* Thread::State, vm.cpp:52-59.
NoState == "NoState"
ActiveState == "ActiveState"
IdleState == "IdleState"
ZombieState == "ZombieState"
ExclusiveState == "ExclusiveState"
ExitState == "ExitState"
State == {NoState, ActiveState, IdleState, ZombieState, ExclusiveState, ExitState}

\* The sizes threads ask allocate for: half a nursery, so that every second
\* request finds the nursery full, and one unit more than a whole nursery.
AllocSizes == {HeapSize \div 2, HeapSize + 1}

VARIABLES
  state,        \* Thread::state of every thread (vm.cpp:82)
  heapIndex,    \* Thread::heapIndex of every thread (vm.cpp:89)
  exclusive,    \* Machine::exclusive (vm.cpp:41): a thread or NULL
  activeCount,  \* Machine::activeCount (vm.cpp:42)
  liveCount,    \* Machine::liveCount (vm.cpp:43)
  owner,        \* the thread holding Machine::stateLock, or NULL
  depth,        \* how many times the owner has acquired stateLock
  waitStatus,   \* per thread: "none", or its place in stateLock->wait()
  saved,        \* per thread in wait(): the depth to take the monitor back at
  stack,        \* per thread: the call stack, innermost frame first
  aborted,      \* System::abort() has been called: the process is gone
  unguarded     \* accesses <<kind, field, function>> to the coordination
                \* fields made by a thread that did not hold stateLock

\* The nurseries and the roots of the threads as allocate (316-328) and
\* iterate (148-169) see them when one thread at a time runs, with the sizes
\* and indices kept at the 32 bits of `unsigned`.
VARIABLES
  rootThread,   \* Machine::rootThread (vm.cpp:40)
  next,         \* Thread::next of every thread (vm.cpp:80)
  heapIndex32,  \* Thread::heapIndex (vm.cpp:89) as a 32 bit word
  sp,           \* Thread::sp of every thread (vm.cpp:88)
  protector,    \* Thread::protector (vm.cpp:92): the list of the p pointers
  visited,      \* per thread: what the last iterate(t, v) passed to v->visit
  allocated,    \* what the last allocate call did
  calls,        \* how many allocate calls were made
  ended         \* "no", or how the process ended: "abort" or "crash"

nursery == <<rootThread, next, heapIndex32, sp, protector, visited, allocated,
             calls, ended>>

\* One thread inside run (vm.cpp:758-2173): the registers of the interpreter
\* loop and what they point to.
VARIABLES
  frame,              \* Thread::frame (vm.cpp:84): the chain of frames,
                      \* innermost first, linked by frameNext; << >> is null
  code,               \* Thread::code (vm.cpp:85): <<"Code", m>> is the Code
                      \* of method m, <<"Method", m>> the Method m itself
  ip,                 \* Thread::ip (vm.cpp:87)
  operands,           \* Thread::stack[0 .. sp) (vm.cpp:88, 90)
  exception,          \* Thread::exception (vm.cpp:86)
  classInitializers,  \* classInitializers(t, class_) of every class
  running,            \* "run" inside run(t); "returned", "abort", "crash"
  thrown,             \* the last unwinding from throw_ (vm.cpp:2142)
  ran,                \* the initialisers a frame was made for, in order
  stored,             \* the last setField(t, instance, field, value)
  result              \* what run returned (vm.cpp:884, 2014)

\* What the opcodes of the first part of the loop leave alone.
written == <<stored, result>>

interpreter == <<frame, code, ip, operands, exception, classInitializers,
                 running, thrown, ran, stored, result>>

\* Class resolution (vm.cpp:671-756): the class map, a constant pool and the
\* place of every thread in a resolveClass, resolveField or resolveMethod call.
VARIABLES
  classMap,     \* Machine::classMap (vm.cpp:47): per bucket the chain of
                \* <<key, value>>, newest first
  parsed,       \* the Class objects made by parseClass, in order: class i
                \* is <<"Class", i>> and parsed[i] is its name
  classLock,    \* the thread holding Machine::classLock (vm.cpp:46), or NULL
  pool,         \* the slots of a constant pool (codePool of a method)
  resolving,    \* per thread: where it is in a resolution call
  effects,      \* per thread: what its current call has written so far
  resolvedAs    \* the <<name, class>> that resolveClass(t, spec) returned

resolver == <<classMap, parsed, classLock, pool, resolving, effects,
              resolvedAs>>

\* The machine while it is set up (vm.cpp:116-146): the fields of Machine
\* that hold what the embedder passed and the monitors.
VARIABLES
  sys,          \* Machine::sys (vm.cpp:37): 0 is null
  heap,         \* Machine::heap (vm.cpp:38)
  classFinder,  \* Machine::classFinder (vm.cpp:39)
  locks,        \* Machine::stateLock, heapLock, classLock (vm.cpp:44-46)
  booted        \* how far the set-up has come

startup == <<sys, heap, classFinder, locks, booted>>

\* Threads at an opcode that takes the initialisers of a class first
\* (vm.cpp:1176-1183, 1599-1606, 1871-1878, 1989-1996).
VARIABLES
  trigger,      \* per thread: where it is in the opcode, and its local p
  ranBy         \* the <<thread, initialiser>> a frame was made for, in order

initialising == <<trigger, ranBy>>

\* What the coordinator leaves alone.
local == <<nursery, interpreter, resolver, startup, initialising>>

coordinator == <<state, heapIndex, exclusive, activeCount, liveCount, owner,
                 depth, waitStatus, saved, stack, aborted, unguarded>>

vars == <<state, heapIndex, exclusive, activeCount, liveCount, owner, depth,
          waitStatus, saved, stack, aborted, unguarded, local>>

machine == <<exclusive, activeCount, liveCount>>
monitor == <<owner, depth, waitStatus, saved>>

\* ----------------------------------------------------------- call stacks
Frame(pc, arg) == [pc |-> pc, arg |-> arg]
Top(t) == stack[t][1]
\* Thread t is running (not inside wait()) with its innermost frame at pc.
At(t, pc) ==
  /\ ~aborted
  /\ waitStatus[t] = "none"
  /\ stack[t] # << >>
  /\ Top(t).pc = pc
Goto(t, pc) ==
  stack' = [stack EXCEPT ![t] = <<Frame(pc, Top(t).arg)>> \o Tail(stack[t])]
Call(t, callee, ret) ==
  stack' = [stack EXCEPT
              ![t] = <<callee, Frame(ret, Top(t).arg)>> \o Tail(stack[t])]
Return(t) == stack' = [stack EXCEPT ![t] = Tail(stack[t])]
\* Some frame of t's stack (innermost or not) is a call of enter(t, s).
EnterLabels == {"e_switch", "x_loop", "x_loop2", "x_wait", "a_loop",
                "q_wait", "e_ret"}
InEnter(t, s) ==
  \E i \in 1..Len(stack[t]) :
    stack[t][i].pc \in EnterLabels /\ stack[t][i].arg = s

\* ------------------------------------------------------ the state monitor
\* System::Monitor::acquire: blocks while another thread owns the monitor.
CanAcquire(t) == owner \in {NULL, t}
Acquire(t) ==
  /\ CanAcquire(t)
  /\ owner' = t
  /\ depth' = depth + 1
\* System::Monitor::release, called by ~MonitorResource.
Release(t) ==
  /\ owner' = IF depth = 1 THEN NULL ELSE t
  /\ depth' = depth - 1
\* System::Monitor::wait: gives the monitor up and sleeps.
Wait(t) ==
  /\ owner' = NULL
  /\ depth' = 0
  /\ saved' = [saved EXCEPT ![t] = depth]
  /\ waitStatus' = [waitStatus EXCEPT ![t] = "waiting"]
\* System::Monitor::notifyAll: every sleeping thread is made runnable.
NotifyAll ==
  waitStatus' = [u \in Threads |->
                   IF waitStatus[u] = "waiting" THEN "notified"
                   ELSE waitStatus[u]]

\* An access to a coordination field is noted when its thread does not hold
\* the state monitor.
Touch(t, accesses) ==
  unguarded' = IF owner = t THEN unguarded ELSE unguarded \cup accesses

\* abort(t), vm.cpp:104-108: System::abort() ends the process.  No thread is
\* in any call or holds any monitor afterwards; the fields of the machine and
\* of the threads are kept as abort found them.
Abort ==
  /\ aborted' = TRUE
  /\ stack' = [u \in Threads |-> << >>]
  /\ owner' = NULL
  /\ depth' = 0
  /\ waitStatus' = [u \in Threads |-> "none"]
  /\ saved' = [u \in Threads |-> 0]
  /\ UNCHANGED <<state, heapIndex, machine, unguarded, local>>

TypeOK ==
  /\ state \in [Threads -> State]
  /\ heapIndex \in [Threads -> Nat]
  /\ exclusive \in Threads \cup {NULL}
  /\ activeCount \in Int
  /\ liveCount \in Int
  /\ owner \in Threads \cup {NULL}
  /\ depth \in Nat
  /\ waitStatus \in [Threads -> {"none", "waiting", "notified", "spurious"}]
  /\ saved \in [Threads -> Nat]
  /\ aborted \in BOOLEAN

\* A thread that is at no opcode.
NotTriggered == [at |-> "idle", op |-> "none", p |-> << >>]

\* The pointers a machine holds: 0 is null.
Handles == {1, 2}
LockNames == {"stateLock", "heapLock", "classLock"}

\* The machine as the coordinator, the interpreter and the resolution
\* functions need it: sys, heap and classFinder are set and the monitors
\* exist.
MachineReady ==
  /\ sys = 1
  /\ heap = 1
  /\ classFinder = 1
  /\ locks = [l \in LockNames |-> 1]
  /\ booted = "running"

\* No thread is at an opcode that takes initialisers.
TriggersUnused ==
  /\ trigger = [t \in Threads |-> NotTriggered]
  /\ ranBy = << >>

\* init(Machine*, ...) (vm.cpp:116-130) zeroes the machine and makes the
\* monitors; init(Thread*, Machine*) (vm.cpp:139-146) leaves a thread in
\* NoState.  Nurseries start empty.  (The memset of line 142 names m where
\* the thread is meant; the coordinator is modelled over a machine whose
\* counters are 0, whose exclusive is null and whose monitors exist.)
InitCoordinator ==
  /\ state = [t \in Threads |-> NoState]
  /\ heapIndex = [t \in Threads |-> 0]
  /\ exclusive = NULL
  /\ activeCount = 0
  /\ liveCount = 0
  /\ owner = NULL
  /\ depth = 0
  /\ waitStatus = [t \in Threads |-> "none"]
  /\ saved = [t \in Threads |-> 0]
  /\ stack = [t \in Threads |-> << >>]
  /\ aborted = FALSE
  /\ unguarded = {}
  /\ MachineReady
  /\ TriggersUnused

\* No thread allocates or is scanned outside the coordinator.
NurseryUnused ==
  /\ rootThread = NULL
  /\ next = [t \in Threads |-> NULL]
  /\ heapIndex32 = [t \in Threads |-> <<0, 0>>]
  /\ sp = [t \in Threads |-> 0]
  /\ protector = [t \in Threads |-> << >>]
  /\ visited = [t \in Threads |-> << >>]
  /\ allocated = << >>
  /\ calls = 0
  /\ ended = "no"

\* No setField call yet.
NoStore ==
  [instance |-> <<"null", "none">>, field |-> "none",
   value |-> <<"null", "none">>]

NoThrow ==
  [exc |-> "none", minted |-> FALSE, before |-> << >>, chain |-> << >>,
   selected |-> <<0, 0>>]

\* No thread is inside run.
InterpreterUnused ==
  /\ frame = << >>
  /\ code = <<"null", "none">>
  /\ ip = 0
  /\ operands = << >>
  /\ exception = <<"null", "none">>
  /\ classInitializers = << >>
  /\ running = "returned"
  /\ thrown = NoThrow
  /\ ran = << >>
  /\ stored = NoStore
  /\ result = <<"null", "none">>

\* No thread has called a resolution function.
NotResolving ==
  [at |-> "idle", fn |-> "none", slot |-> 0, spec |-> "none",
   class_ |-> <<"null", "none">>, exception |-> "none",
   result |-> <<"null", "none">>]

ResolverUnused ==
  /\ classMap = << >>
  /\ parsed = << >>
  /\ classLock = NULL
  /\ pool = << >>
  /\ resolving = [t \in Threads |-> NotResolving]
  /\ effects = [t \in Threads |-> {}]
  /\ resolvedAs = {}

Init ==
  /\ InitCoordinator
  /\ NurseryUnused
  /\ InterpreterUnused
  /\ ResolverUnused


\* --------------------------------------------------------- enter, 193-290
\* vm.cpp:196-198, the entry of enter(t, s) called with the frames `caller`
\* below it: nothing to do when t is in s already; otherwise
\* ACQUIRE_MONITOR(t->vm->stateLock), which blocks while another thread
\* holds the monitor, and then the switch.
enterStart(t, s, caller) ==
  IF s = state[t]
    THEN /\ stack' = [stack EXCEPT ![t] = caller]
         /\ UNCHANGED <<owner, depth>>
    ELSE /\ Acquire(t)
         /\ stack' = [stack EXCEPT ![t] = <<Frame("e_switch", s)>> \o caller]

\* A call enter(t, s) made from the frame on top of t's stack, which goes on
\* at ret when the call returns.
EnterCall(t, s, ret) ==
  enterStart(t, s, <<Frame(ret, Top(t).arg)>> \o Tail(stack[t]))

\* vm.cpp:201-202: case ExclusiveState, up to the first loop.
enterExclusive(t) ==
  IF state[t] = ActiveState
    THEN /\ Goto(t, "x_loop")
         /\ UNCHANGED <<state, heapIndex, machine, monitor, aborted, local, unguarded>>
    ELSE Abort

\* Mutant of enterIdleOrZombie: the notifyAll of line 237 is left out.
enterIdleOrZombie_NoNotify(t, s) ==
  IF \/ state[t] = ActiveState
     \/ state[t] = ExclusiveState /\ exclusive = t
    THEN /\ exclusive' = IF state[t] = ExclusiveState THEN NULL ELSE exclusive
         /\ activeCount' = activeCount - 1
         /\ liveCount' = IF s = ZombieState THEN liveCount - 1 ELSE liveCount
         /\ state' = [state EXCEPT ![t] = s]
         /\ Goto(t, "e_ret")
         /\ UNCHANGED <<heapIndex, monitor, aborted, local, unguarded>>
    ELSE Abort
\* vm.cpp:218-238: case IdleState, case ZombieState.
enterIdleOrZombie(t, s) ==
  IF \/ state[t] = ActiveState
     \/ state[t] = ExclusiveState /\ exclusive = t
    THEN /\ exclusive' = IF state[t] = ExclusiveState THEN NULL ELSE exclusive
         /\ activeCount' = activeCount - 1
         /\ liveCount' = IF s = ZombieState THEN liveCount - 1 ELSE liveCount
         /\ state' = [state EXCEPT ![t] = s]
         /\ NotifyAll
         /\ Touch(t, {<<"write", "exclusive", "enter">>,
                      <<"write", "activeCount", "enter">>,
                      <<"write", "liveCount", "enter">>})
         /\ Goto(t, "e_ret")
         /\ UNCHANGED <<heapIndex, owner, depth, saved, aborted, local>>
    ELSE Abort

\* Mutant of enterActive: line 246 (exclusive = 0) is left out.
enterActive_KeepsExclusive(t, s) ==
  CASE state[t] = ExclusiveState /\ exclusive = t ->
         /\ state' = [state EXCEPT ![t] = s]
         /\ NotifyAll
         /\ Goto(t, "e_ret")
         /\ UNCHANGED <<heapIndex, machine, owner, depth, saved, aborted, local,
                        unguarded>>
    [] state[t] \in {NoState, IdleState} ->
         /\ Goto(t, "a_loop")
         /\ UNCHANGED <<state, heapIndex, machine, monitor, aborted, local, unguarded>>
    [] OTHER -> Abort
\* vm.cpp:240-266: case ActiveState, up to the loop of 253.
enterActive(t, s) ==
  CASE state[t] = ExclusiveState /\ exclusive = t ->
         /\ state' = [state EXCEPT ![t] = s]
         /\ exclusive' = NULL
         /\ NotifyAll
         /\ Touch(t, {<<"write", "exclusive", "enter">>})
         /\ Goto(t, "e_ret")
         /\ UNCHANGED <<heapIndex, activeCount, liveCount, owner, depth, saved,
                        aborted, local>>
    [] state[t] \in {NoState, IdleState} ->
         /\ Goto(t, "a_loop")
         /\ UNCHANGED <<state, heapIndex, machine, monitor, aborted, local, unguarded>>
    [] OTHER -> Abort

\* Mutant of enterExit: the switch of line 269 lets IdleState through too.
enterExit_AlsoFromIdle(t, s) ==
  IF \/ state[t] \in {ActiveState, IdleState}
     \/ state[t] = ExclusiveState /\ exclusive = t
    THEN /\ exclusive' = IF state[t] = ExclusiveState THEN NULL ELSE exclusive
         /\ activeCount' = activeCount - 1
         /\ state' = [state EXCEPT ![t] = s]
         /\ Touch(t, {<<"write", "exclusive", "enter">>,
                      <<"write", "activeCount", "enter">>})
         /\ Goto(t, "q_wait")
         /\ UNCHANGED <<heapIndex, liveCount, monitor, aborted, local>>
    ELSE Abort
\* vm.cpp:268-281: case ExitState, up to the loop of 283.
enterExit(t, s) ==
  IF \/ state[t] = ActiveState
     \/ state[t] = ExclusiveState /\ exclusive = t
    THEN /\ exclusive' = IF state[t] = ExclusiveState THEN NULL ELSE exclusive
         /\ activeCount' = activeCount - 1
         /\ state' = [state EXCEPT ![t] = s]
         /\ Touch(t, {<<"write", "exclusive", "enter">>,
                      <<"write", "activeCount", "enter">>})
         /\ Goto(t, "q_wait")
         /\ UNCHANGED <<heapIndex, liveCount, monitor, aborted, local>>
    ELSE Abort

\* vm.cpp:200-289: switch (s).
enterSwitch(t) ==
  /\ At(t, "e_switch")
  /\ LET s == Top(t).arg IN
     CASE s = ExclusiveState -> enterExclusive(t)
       [] s \in {IdleState, ZombieState} -> enterIdleOrZombie(t, s)
       [] s = ActiveState -> enterActive(t, s)
       [] s = ExitState -> enterExit(t, s)
       [] OTHER -> Abort

\* Mutant of ExclusiveTaken: line 211 runs without the loop of line 204.
ExclusiveTaken_Never == FALSE
\* vm.cpp:204: while (t->vm->exclusive).
ExclusiveTaken == exclusive # NULL
\* vm.cpp:204-211: give way while another thread is exclusive, then take it.
enterExclusiveLoop(t) ==
  /\ At(t, "x_loop")
  /\ Touch(t, {<<"read", "exclusive", "enter">>})
  /\ IF ExclusiveTaken
       THEN /\ EnterCall(t, IdleState, "x_loop2")
            /\ UNCHANGED <<state, exclusive>>
       ELSE /\ state' = [state EXCEPT ![t] = ExclusiveState]
            /\ exclusive' = t
            /\ Goto(t, "x_wait")
            /\ UNCHANGED <<owner, depth>>
  /\ UNCHANGED <<heapIndex, activeCount, liveCount, waitStatus, saved,
                 aborted, local>>

\* vm.cpp:207: back to ActiveState, then the loop test again.
enterExclusiveLoop2(t) ==
  /\ At(t, "x_loop2")
  /\ EnterCall(t, ActiveState, "x_loop")
  /\ UNCHANGED <<state, heapIndex, machine, waitStatus, saved, aborted, local,
                 unguarded>>

\* Mutant of ExclusiveWaitGuard: the loop of line 213 off by one.
ExclusiveWaitGuard_OffByOne == activeCount > 2
\* vm.cpp:213: while (t->vm->activeCount > 1).
ExclusiveWaitGuard == activeCount > 1
\* vm.cpp:213-215.
enterExclusiveWait(t) ==
  /\ At(t, "x_wait")
  /\ Touch(t, {<<"read", "activeCount", "enter">>})
  /\ IF ExclusiveWaitGuard
       THEN /\ Wait(t)
            /\ UNCHANGED stack
       ELSE /\ Goto(t, "e_ret")
            /\ UNCHANGED monitor
  /\ UNCHANGED <<state, heapIndex, machine, aborted, local>>

\* vm.cpp:253: while (t->vm->exclusive).
ActiveWaitGuard == exclusive # NULL
\* Mutant of enterActiveLoop: line 258 without the test of line 257, so
\* that a thread coming back from IdleState is counted as live again.
enterActiveLoop_CountsIdle(t) ==
  /\ At(t, "a_loop")
  /\ IF ActiveWaitGuard
       THEN /\ Wait(t)
            /\ Touch(t, {<<"read", "exclusive", "enter">>})
            /\ UNCHANGED <<state, activeCount, liveCount, stack>>
       ELSE /\ activeCount' = activeCount + 1
            /\ liveCount' = liveCount + 1
            /\ state' = [state EXCEPT ![t] = Top(t).arg]
            /\ Touch(t, {<<"read", "exclusive", "enter">>,
                         <<"write", "activeCount", "enter">>,
                         <<"write", "liveCount", "enter">>})
            /\ Goto(t, "e_ret")
            /\ UNCHANGED monitor
  /\ UNCHANGED <<heapIndex, exclusive, aborted, local>>

\* vm.cpp:253-261.
enterActiveLoop(t) ==
  /\ At(t, "a_loop")
  /\ IF ActiveWaitGuard
       THEN /\ Wait(t)
            /\ Touch(t, {<<"read", "exclusive", "enter">>})
            /\ UNCHANGED <<state, activeCount, liveCount, stack>>
       ELSE /\ activeCount' = activeCount + 1
            /\ liveCount' = IF state[t] = NoState THEN liveCount + 1
                            ELSE liveCount
            /\ state' = [state EXCEPT ![t] = Top(t).arg]
            /\ Touch(t, {<<"read", "exclusive", "enter">>,
                         <<"write", "activeCount", "enter">>,
                         <<"write", "liveCount", "enter">>})
            /\ Goto(t, "e_ret")
            /\ UNCHANGED monitor
  /\ UNCHANGED <<heapIndex, exclusive, aborted, local>>

\* Mutant of ExitWaitGuard: the loop of line 283 off by one.
ExitWaitGuard_OffByOne == liveCount > 2
\* vm.cpp:283: while (t->vm->liveCount > 1).
ExitWaitGuard == liveCount > 1
\* vm.cpp:283-285.
enterExitWait(t) ==
  /\ At(t, "q_wait")
  /\ Touch(t, {<<"read", "liveCount", "enter">>})
  /\ IF ExitWaitGuard
       THEN /\ Wait(t)
            /\ UNCHANGED stack
       ELSE /\ Goto(t, "e_ret")
            /\ UNCHANGED monitor
  /\ UNCHANGED <<state, heapIndex, machine, aborted, local>>

\* Mutant of enterReturn: enter returns without releasing the monitor.
enterReturn_KeepsMonitor(t) ==
  /\ At(t, "e_ret")
  /\ Return(t)
  /\ UNCHANGED <<state, heapIndex, machine, monitor, aborted, local, unguarded>>

\* vm.cpp:290: the MonitorResource goes out of scope and enter returns.
enterReturn(t) ==
  /\ At(t, "e_ret")
  /\ Release(t)
  /\ Return(t)
  /\ UNCHANGED <<state, heapIndex, machine, waitStatus, saved, aborted, local,
                 unguarded>>

\* Mutant of waitReturn: line 213 is an `if`, not a `while`: when the wait()
\* of line 214 returns the thread goes on without testing activeCount again.
waitReturn_NoRetest(t) ==
  /\ ~aborted
  /\ waitStatus[t] \in {"notified", "spurious"}
  /\ owner = NULL
  /\ owner' = t
  /\ depth' = saved[t]
  /\ saved' = [saved EXCEPT ![t] = 0]
  /\ waitStatus' = [waitStatus EXCEPT ![t] = "none"]
  /\ IF Top(t).pc = "x_wait" THEN Goto(t, "e_ret") ELSE UNCHANGED stack
  /\ UNCHANGED <<state, heapIndex, machine, aborted, local, unguarded>>

\* stateLock->wait() returns (vm.cpp:214, 254, 284): the thread was made
\* runnable and takes the monitor back at the depth it had; it goes on at
\* the test of the loop the wait() is in.
waitReturn(t) ==
  /\ ~aborted
  /\ waitStatus[t] \in {"notified", "spurious"}
  /\ owner = NULL
  /\ owner' = t
  /\ depth' = saved[t]
  /\ saved' = [saved EXCEPT ![t] = 0]
  /\ waitStatus' = [waitStatus EXCEPT ![t] = "none"]
  /\ UNCHANGED <<state, heapIndex, machine, stack, aborted, local, unguarded>>

\* A wait() that returns although no thread has notified the monitor.
spuriousWakeup(t) ==
  /\ ~aborted
  /\ waitStatus[t] = "waiting"
  /\ waitStatus' = [waitStatus EXCEPT ![t] = "spurious"]
  /\ UNCHANGED <<state, heapIndex, machine, owner, depth, saved, stack,
                 aborted, local, unguarded>>

\* -------------------------------- collect, 171-191, and iterate, 148-169
\* The threads a collection scans: iterate sets heapIndex of each to 0
\* (vm.cpp:151).  The threads of the machine are taken to be the list that
\* collect walks from rootThread (vm.cpp:181).
ScannedThreads == Threads
collect(t) ==
  heapIndex' = [u \in Threads |-> IF u \in ScannedThreads THEN 0
                                  ELSE heapIndex[u]]

\* ------------------------------------- maybeYieldAndMaybeCollect, 292-314
\* vm.cpp:309 and 319: the request does not fit below the end of the nursery.
NurseryFull(index, size) == index + size >= HeapSize

\* Mutant of maybeYieldStart: the ACQUIRE_MONITOR of line 300 is left out.
maybeYieldStart_NoMonitor(t) ==
  /\ At(t, "maybeYield")
  /\ IF Top(t).arg > HeapSize
       THEN Abort
       ELSE /\ Goto(t, "m_loop")
            /\ UNCHANGED <<state, heapIndex, machine, monitor, aborted, local,
                           unguarded>>

\* vm.cpp:295-300: a request larger than the nursery aborts; otherwise
\* ACQUIRE_MONITOR(t->vm->stateLock).
maybeYieldStart(t) ==
  /\ At(t, "maybeYield")
  /\ IF Top(t).arg > HeapSize
       THEN Abort
       ELSE /\ Acquire(t)
            /\ Goto(t, "m_loop")
            /\ UNCHANGED <<state, heapIndex, machine, waitStatus, saved,
                           aborted, local, unguarded>>

\* Mutant of YieldGuard: the loop of lines 302-307 is left out.
YieldGuard_Never == FALSE
\* vm.cpp:302: while (t->vm->exclusive).
YieldGuard == exclusive # NULL
\* vm.cpp:302-310: give way to an exclusive thread, then ask for
\* ExclusiveState when the nursery cannot take the request.
maybeYieldLoop(t) ==
  /\ At(t, "m_loop")
  /\ Touch(t, {<<"read", "exclusive", "maybeYieldAndMaybeCollect">>})
  /\ IF YieldGuard
       THEN EnterCall(t, IdleState, "m_loop2")
       ELSE IF NurseryFull(heapIndex[t], Top(t).arg)
              THEN EnterCall(t, ExclusiveState, "m_collect")
              ELSE Goto(t, "m_ret") /\ UNCHANGED <<owner, depth>>
  /\ UNCHANGED <<state, heapIndex, machine, waitStatus, saved, aborted, local>>

\* vm.cpp:306.
maybeYieldLoop2(t) ==
  /\ At(t, "m_loop2")
  /\ EnterCall(t, ActiveState, "m_loop")
  /\ UNCHANGED <<state, heapIndex, machine, waitStatus, saved, aborted, local,
                 unguarded>>

\* vm.cpp:311-312: the minor collection, then back to ActiveState.
maybeYieldCollect(t) ==
  /\ At(t, "m_collect")
  /\ collect(t)
  /\ EnterCall(t, ActiveState, "m_ret")
  /\ UNCHANGED <<state, machine, waitStatus, saved, aborted, local, unguarded>>

\* vm.cpp:314: the MonitorResource goes out of scope.
maybeYieldReturn(t) ==
  /\ At(t, "m_ret")
  /\ Release(t)
  /\ Return(t)
  /\ UNCHANGED <<state, heapIndex, machine, waitStatus, saved, aborted, local,
                 unguarded>>

\* ------------------------------------------------------ allocate, 316-328
\* What the read of t->vm->exclusive in vm.cpp:320 can give.  The thread does
\* not hold the state monitor here, so the read races with the writes of a
\* thread that does: while another thread holds the monitor either answer is
\* possible.
PollOutcomes(t) ==
  {exclusive # NULL} \cup (IF owner \in {NULL, t} THEN {} ELSE BOOLEAN)

\* vm.cpp:319-323: the safepoint poll of allocate(t, size), called by a
\* thread that is in no other call.
allocatePoll(t, size) ==
  /\ Touch(t, {<<"read", "exclusive", "allocate">>})
  /\ \E seen \in PollOutcomes(t) :
       IF NurseryFull(heapIndex[t], size) \/ seen
         THEN stack' = [stack EXCEPT ![t] = <<Frame("maybeYield", size),
                                              Frame("a_bump", size)>>]
         ELSE stack' = [stack EXCEPT ![t] = <<Frame("a_bump", size)>>]
  /\ UNCHANGED <<state, heapIndex, machine, monitor, aborted, local>>

\* vm.cpp:325-327: hand out heap + heapIndex and advance heapIndex.
allocateBump(t) ==
  /\ At(t, "a_bump")
  /\ heapIndex' = [heapIndex EXCEPT ![t] = heapIndex[t] + Top(t).arg]
  /\ Return(t)
  /\ UNCHANGED <<state, machine, monitor, aborted, local, unguarded>>

\* ------------------------------------------------------------ the threads
\* A thread that is in no call calls enter(t, s), for any s.
callEnter(t, s) ==
  /\ ~aborted
  /\ stack[t] = << >>
  /\ enterStart(t, s, << >>)
  /\ UNCHANGED <<state, heapIndex, machine, waitStatus, saved, aborted, local,
                 unguarded>>

\* A mutator (a thread in ActiveState that is in no call) calls
\* allocate(t, size): the interpreter allocates in ActiveState only.
callAllocate(t, size) ==
  /\ ~aborted
  /\ stack[t] = << >>
  /\ state[t] = ActiveState
  /\ allocatePoll(t, size)

\* One step of thread t inside a call.
threadStep(t) ==
  \/ enterSwitch(t)
  \/ enterExclusiveLoop(t)
  \/ enterExclusiveLoop2(t)
  \/ enterExclusiveWait(t)
  \/ enterActiveLoop(t)
  \/ enterExitWait(t)
  \/ enterReturn(t)
  \/ waitReturn(t)
  \/ maybeYieldStart(t)
  \/ maybeYieldLoop(t)
  \/ maybeYieldLoop2(t)
  \/ maybeYieldCollect(t)
  \/ maybeYieldReturn(t)
  \/ allocateBump(t)

threadCall(t) ==
  \/ \E s \in State : callEnter(t, s)
  \/ \E size \in AllocSizes : callAllocate(t, size)

Next == \E t \in Threads : threadStep(t) \/ threadCall(t)

Spec == Init /\ [][Next]_vars

\* The same threads over a monitor whose wait() may also return without any
\* notifyAll.
NextSpurious == Next \/ \E t \in Threads : spuriousWakeup(t)

SpecSpurious == Init /\ [][NextSpurious]_vars

\* A fair scheduler: a thread inside a call that can take a step again and
\* again takes one, and a thread in ActiveState or ExclusiveState that is in
\* no call makes its next call (an allocate, or an enter).  The fairness is
\* strong, so that no behaviour it admits rests on a thread that is kept
\* from the monitor by the others.
mutatorCall(t) ==
  /\ state[t] \in {ActiveState, ExclusiveState}
  /\ threadCall(t)

FairSpec ==
  /\ Spec
  /\ \A t \in Threads : SF_vars(threadStep(t)) /\ SF_vars(mutatorCall(t))

\* The threads when they call nothing but enter: what the transitions of
\* enter do among themselves.  A thread that is a zombie or has not become
\* active is in no call of allocate (callAllocate), so the calls of enter are
\* all that is left once every thread but one is in ZombieState or NoState.
enterStep(t) ==
  \/ enterSwitch(t)
  \/ enterExclusiveLoop(t)
  \/ enterExclusiveLoop2(t)
  \/ enterExclusiveWait(t)
  \/ enterActiveLoop(t)
  \/ enterExitWait(t)
  \/ enterReturn(t)
  \/ waitReturn(t)

NextEnter == \E t \in Threads : enterStep(t) \/ \E s \in State : callEnter(t, s)

\* A thread inside enter that can take a step again and again takes one.
FairEnterSpec ==
  /\ Init
  /\ [][NextEnter]_vars
  /\ \A t \in Threads : SF_vars(enterStep(t))

\* ------------------------------------------- the nurseries, one thread
\* ------------------------------------------- at a time: allocate, iterate
\* `unsigned` has 32 bits (size, heapIndex and their sum, vm.cpp:89, 317,
\* 319).  A value is kept as <<high half, low half>>, each half 16 bits wide,
\* so that a sum wraps around at 2^32 as it does in the code.
Half == 2^16
Word32(n) == <<n \div Half, n % Half>>
Add32(a, b) ==
  LET low == a[2] + b[2]
  IN  <<(a[1] + b[1] + low \div Half) % Half, low % Half>>
GreaterEq32(a, b) == a[1] > b[1] \/ (a[1] = b[1] /\ a[2] >= b[2])
Greater32(a, b) == a[1] > b[1] \/ (a[1] = b[1] /\ a[2] > b[2])
Zero32 == Word32(0)
Max32 == <<Half - 1, Half - 1>>
HeapSize32 == Word32(HeapSize)

\* How many allocate calls a behaviour makes.
MaxCalls == 3
\* How many operand stack slots a thread fills (StackSize, vm.cpp:77, is the
\* limit of the code).
MaxSp == 2
\* How many Protectors a thread has on its list at a time.
MaxProtectors == 1

\* The sizes asked of allocate: half a nursery, a whole one, one unit more,
\* and the largest `unsigned`.
Sizes32 == {Word32(HeapSize \div 2), HeapSize32, Word32(HeapSize + 1), Max32}

\* The threads on the list that starts at t and goes on along Thread::next.
RECURSIVE Chain(_, _, _)
Chain(link, t, seen) ==
  IF t = NULL \/ t \in seen THEN seen
  ELSE Chain(link, link[t], seen \cup {t})
\* Lists that end: the loop of vm.cpp:181 comes to a null next.
Lists ==
  {link \in [Threads -> Threads \cup {NULL}] :
     \A t \in Threads : t \notin Chain(link, link[t], {})}

NoCall ==
  [thread |-> NULL, size |-> Zero32, from |-> Zero32, offset |-> Zero32,
   outcome |-> "none", small |-> TRUE]

\* A machine whose threads have been made: rootThread is one of them (line
\* 144 sets it at every init(Thread*, Machine*)), the threads are linked by
\* next in some list that ends (no line of vm.cpp assigns next or child: the
\* links are what the embedder made them), nurseries and stacks are empty.
InitNursery ==
  /\ InitCoordinator
  /\ InterpreterUnused
  /\ ResolverUnused
  /\ rootThread \in Threads
  /\ next \in Lists
  /\ heapIndex32 = [t \in Threads |-> Zero32]
  /\ sp = [t \in Threads |-> 0]
  /\ protector = [t \in Threads |-> << >>]
  /\ visited = [t \in Threads |-> << >>]
  /\ allocated = NoCall
  /\ calls = 0
  /\ ended = "no"

\* push and pop, vm.cpp:337-347.
push(t) ==
  /\ ended = "no"
  /\ sp[t] < MaxSp
  /\ sp' = [sp EXCEPT ![t] = sp[t] + 1]
  /\ UNCHANGED <<startup, initialising, coordinator, interpreter, resolver, rootThread, next, heapIndex32, protector,
                 visited, allocated, calls, ended>>
pop(t) ==
  /\ ended = "no"
  /\ sp[t] > 0
  /\ sp' = [sp EXCEPT ![t] = sp[t] - 1]
  /\ UNCHANGED <<startup, initialising, coordinator, interpreter, resolver, rootThread, next, heapIndex32, protector,
                 visited, allocated, calls, ended>>

\* Thread::Protector, vm.cpp:61-74: PROTECT puts the address of a local at
\* the head of the list, the end of the scope takes it off again.
protect(t) ==
  /\ ended = "no"
  /\ Len(protector[t]) < MaxProtectors
  /\ protector' = [protector EXCEPT
                     ![t] = <<<<"local", Len(protector[t]) + 1>>>> \o @]
  /\ UNCHANGED <<startup, initialising, coordinator, interpreter, resolver, rootThread, next, heapIndex32, sp, visited,
                 allocated, calls, ended>>
unprotect(t) ==
  /\ ended = "no"
  /\ protector[t] # << >>
  /\ protector' = [protector EXCEPT ![t] = Tail(@)]
  /\ UNCHANGED <<startup, initialising, coordinator, interpreter, resolver, rootThread, next, heapIndex32, sp, visited,
                 allocated, calls, ended>>

\* vm.cpp:158-160: sp times v->visit(t->stack + t->sp).
StackVisits(t) == [i \in 1..sp[t] |-> <<"stack", sp[t]>>]
\* vm.cpp:153-164: what iterate(t, v) hands to v->visit, in order.
iterateVisits(t) ==
  <<<<"thread">>, <<"frame">>, <<"code">>, <<"exception">>>>
    \o StackVisits(t) \o protector[t]

\* The threads a collection scans: those on the list from rootThread (line
\* 181), and whatever the loop of line 166 reaches.  That loop declares a
\* new t and initialises it from its own child field, so it starts from an
\* indeterminate pointer: it may scan no further thread, any threads, or
\* end the process with a fault.
Scans ==
  {Chain(next, rootThread, {}) \cup reached : reached \in SUBSET Threads}

\* allocate(t, size), vm.cpp:316-328, with maybeYieldAndMaybeCollect
\* (292-314), while no other thread runs: exclusive is null, and
\* enter(t, ExclusiveState) and enter(t, ActiveState) return at once.
bump(t, size, index) ==
  /\ heapIndex32' = [index EXCEPT ![t] = Add32(index[t], size)]
  /\ allocated' = [thread |-> t, size |-> size, from |-> heapIndex32[t],
                   offset |-> index[t], outcome |-> "pointer",
                   small |-> allocated.small /\ GreaterEq32(HeapSize32, size)]
  /\ UNCHANGED ended
nurseryAllocate(t, size) ==
  /\ ended = "no"
  /\ calls < MaxCalls
  /\ calls' = calls + 1
  /\ IF ~GreaterEq32(Add32(heapIndex32[t], size), HeapSize32)
       THEN \* line 319 false: lines 325-327
            /\ bump(t, size, heapIndex32)
            /\ UNCHANGED visited
       ELSE IF Greater32(size, HeapSize32)
         THEN \* line 295
              /\ ended' = "abort"
              /\ allocated' = [thread |-> t, size |-> size,
                               from |-> heapIndex32[t],
                               offset |-> heapIndex32[t],
                               outcome |-> "abort", small |-> FALSE]
              /\ UNCHANGED <<heapIndex32, visited>>
         ELSE \* lines 309-312: collect scans some threads, iterate sets
              \* heapIndex of each back to 0 (line 151); then 325-327
              \/ \E scanned \in Scans :
                   /\ visited' = [u \in Threads |->
                                    IF u \in scanned THEN iterateVisits(u)
                                    ELSE << >>]
                   /\ bump(t, size,
                           [u \in Threads |->
                              IF u \in scanned THEN Zero32
                              ELSE heapIndex32[u]])
              \/ /\ ended' = "crash"
                 /\ allocated' = [thread |-> t, size |-> size,
                                  from |-> heapIndex32[t],
                                  offset |-> heapIndex32[t],
                                  outcome |-> "crash",
                                  small |-> allocated.small]
                 /\ UNCHANGED <<heapIndex32, visited>>
  /\ UNCHANGED <<startup, initialising, coordinator, interpreter, resolver, rootThread, next, sp, protector>>

NextNursery ==
  \E t \in Threads :
    \/ push(t)
    \/ pop(t)
    \/ protect(t)
    \/ unprotect(t)
    \/ \E size \in Sizes32 : nurseryAllocate(t, size)

SpecNursery == InitNursery /\ [][NextNursery]_vars

\* --------------------------------------------- run, vm.cpp:758-2173, of
\* --------------------------------------------- one thread
\* Thread::StackSize, vm.cpp:77.
StackSize == 64 * 1024

\* How many frames a chain has at most.
MaxFrames == 3
\* How many operand stack slots a run fills at most.
MaxOperands == 2
\* How far ip goes in a body that is not the body of a Code object.
MaxIp == 4
\* The null reference, and no class (a null classSuper).
Null == <<"null", "none">>
\* t->code = 0.
NoCode == <<"null", "none">>
\* typeOf(o), vm.cpp:700: the tag of an object.
typeOf(o) == o[1]
NoClass == "none"
\* catchType 0 of a handler: it takes every exception (vm.cpp:2150).
AnyType == "0"

\* The classes of the programs run, with classSuper of each.
Classes ==
  {"Object", "Main", "Thread", "I", "C", "D", "Throwable", "Err",
   "NullPointerException", "StackOverflowError"}
classSuper(c) ==
  CASE c = "Object" -> NoClass
    [] c = "D" -> "C"
    [] c \in {"Err", "NullPointerException", "StackOverflowError"}
         -> "Throwable"
    [] OTHER -> "Object"

\* An instance of class c; its objectClass (an Int or an array is an
\* instance of the class of its kind).
Instance(c) == <<"obj", c>>
objectClass(o) == IF o[1] = "obj" THEN o[2] ELSE o[1]

\* The classes on the classSuper chain that starts at c.
RECURSIVE SuperChain(_)
SuperChain(c) == IF c = NoClass THEN {} ELSE {c} \cup SuperChain(classSuper(c))

\* instanceOf, vm.cpp:496-523, for a class that is no interface.
instanceOf(class_, o) ==
  /\ o # Null
  /\ class_ \in SuperChain(objectClass(o))

\* isSuperclass, vm.cpp:552-562.
isSuperclass(class_, base) == class_ \in SuperChain(classSuper(base))

\* The bytes of a body: an opcode with what its operand bytes name, or an
\* operand byte.
Ins(op, arg) == [op |-> op, arg |-> arg]
Operand == Ins("operand", "none")
Op3(op, arg) == <<Ins(op, arg), Operand, Operand>>
Op5(op, arg) == <<Ins(op, arg), Operand, Operand, Operand, Operand>>
Op1(op) == <<Ins(op, "none")>>
Op2(op, arg) == <<Ins(op, arg), Operand>>

\* The operand bytes of a branch, which the programs write in hexadecimal.
OffsetBytes(arg) ==
  CASE arg = "0003" -> <<0, 3>>
    [] arg = "0004" -> <<0, 4>>
    [] arg = "FFFF" -> <<255, 255>>
    [] arg = "00000005" -> <<0, 0, 0, 5>>
    [] arg = "FFFFFFFF" -> <<255, 255, 255, 255>>

\* makeInt(t, n) and a primitive array of a length; intValue reads the
\* value field.
makeInt(n) == <<"int", n>>
Array(length) == <<"array", length>>
intValue(o) == o[2]

\* An entry of an exception handler table (vm.cpp:2147-2156).
Handler(startPc, endPc, handlerIp, catchType) ==
  [startPc |-> startPc, endPc |-> endPc, ip |-> handlerIp,
   catchType |-> catchType]

\* The end of every range that covers a whole body.
BodyEnd == 99

Method(class_, parameterCount, body, handlers) ==
  [class |-> class_, parameterCount |-> parameterCount, maxStack |-> 2,
   body |-> body, handlers |-> handlers]

\* The programs: the methods run enters, the methods they name, the
\* initialisers of C and the thread's handler of uncaught exceptions.
EntryMethods ==
  {"Main.new", "Main.get", "Main.put", "Main.static", "Main.virtual",
   "Main.special", "Main.interface", "Main.throw", "Main.null",
   "Main.nullcall", "Main.call", "Main.areturn", "Main.goto", "Main.back",
   "Main.gotow", "Main.jsr", "Main.jsrw", "Main.ifnull", "Main.acmp",
   "Main.lt", "Main.eq", "Main.gt", "Main.length", "Main.nulllength",
   "Main.putfield", "Main.putnull", "Main.putobj"}
Initialisers == <<"C.clinit1", "C.clinit2">>
MethodTable(m) ==
  CASE m = "Main.new" ->
         Method("Main", 0, Op3("new", "C") \o <<Ins("return_", "none")>>, << >>)
    [] m = "Main.get" ->
         Method("Main", 0, Op3("getstatic", "C") \o <<Ins("return_", "none")>>,
                << >>)
    [] m = "Main.put" ->
         Method("Main", 0,
                <<Ins("aconst_null", "none")>> \o Op3("putstatic", "C")
                  \o <<Ins("return_", "none")>>, << >>)
    [] m = "Main.static" ->
         Method("Main", 0,
                Op3("invokestatic", "C.s") \o <<Ins("return_", "none")>>,
                <<Handler(0, BodyEnd, 3, "Throwable")>>)
    [] m = "Main.virtual" ->
         Method("Main", 0,
                Op3("new", "D") \o Op3("invokevirtual", "C.m")
                  \o <<Ins("return_", "none")>>, << >>)
    [] m = "Main.special" ->
         Method("Main", 0,
                Op3("new", "D") \o Op3("invokespecial", "C.m")
                  \o <<Ins("return_", "none")>>, << >>)
    [] m = "Main.interface" ->
         Method("Main", 0,
                Op3("new", "D") \o Op5("invokeinterface", "I.m")
                  \o <<Ins("return_", "none")>>, << >>)
    [] m = "Main.throw" ->
         Method("Main", 0,
                Op3("new", "Err")
                  \o <<Ins("athrow", "none"), Ins("return_", "none"),
                       Ins("return_", "none")>>,
                <<Handler(BodyEnd - 1, BodyEnd, 4, AnyType),
                  Handler(0, BodyEnd, 5, "Throwable")>>)
    [] m = "Main.null" ->
         Method("Main", 0,
                <<Ins("aconst_null", "none"), Ins("athrow", "none"),
                  Ins("return_", "none")>>,
                <<Handler(0, BodyEnd, 2, "NullPointerException")>>)
    [] m = "Main.nullcall" ->
         Method("Main", 0,
                <<Ins("aconst_null", "none")>> \o Op3("invokevirtual", "C.m")
                  \o <<Ins("return_", "none")>>,
                <<Handler(0, BodyEnd, 4, AnyType)>>)
    [] m = "Main.call" ->
         [Method("Main", 0,
                 Op3("invokestatic", "C.s") \o Op1("return_"), << >>)
            EXCEPT !.maxStack = 0]
    [] m = "Main.areturn" ->
         Method("Main", 0, Op1("aconst_null") \o Op1("areturn"), << >>)
    [] m = "Main.goto" ->
         Method("Main", 0,
                Op3("goto_", "0004") \o Op1("return_") \o Op1("return_")
                  \o Op1("return_"), << >>)
    [] m = "Main.back" ->
         Method("Main", 0,
                Op1("aconst_null") \o Op3("goto_", "FFFF")
                  \o Op1("return_"), << >>)
    [] m = "Main.gotow" ->
         Method("Main", 0,
                Op1("aconst_null") \o Op5("goto_w", "FFFFFFFF")
                  \o Op1("return_"), << >>)
    [] m = "Main.jsr" ->
         Method("Main", 0,
                Op3("jsr", "0003") \o Op1("return_") \o Op1("return_")
                  \o Op1("return_"), << >>)
    [] m = "Main.jsrw" ->
         Method("Main", 0,
                Op5("jsr_w", "00000005") \o Op1("return_")
                  \o Op1("return_"), << >>)
    [] m = "Main.ifnull" ->
         Method("Main", 0,
                Op1("aconst_null") \o Op3("ifnull", "0003")
                  \o Op1("return_") \o Op1("return_"), << >>)
    [] m = "Main.acmp" ->
         Method("Main", 0,
                Op1("aconst_null") \o Op1("aconst_null")
                  \o Op3("if_acmpeq", "0003") \o Op1("return_")
                  \o Op1("return_"), << >>)
    [] m = "Main.lt" ->
         Method("Main", 0,
                Op1("iconst_0") \o Op1("iconst_1")
                  \o Op3("if_icmple", "0003") \o Op1("return_")
                  \o Op1("return_"), << >>)
    [] m = "Main.eq" ->
         Method("Main", 0,
                Op1("iconst_1") \o Op1("iconst_1")
                  \o Op3("if_icmple", "0003") \o Op1("return_")
                  \o Op1("return_"), << >>)
    [] m = "Main.gt" ->
         Method("Main", 0,
                Op1("iconst_1") \o Op1("iconst_0")
                  \o Op3("if_icmple", "0003") \o Op1("return_")
                  \o Op1("return_"), << >>)
    [] m = "Main.length" ->
         Method("Main", 0,
                Op1("iconst_1") \o Op2("newarray", "T_INT")
                  \o Op1("arraylength") \o Op1("return_"), << >>)
    [] m = "Main.nulllength" ->
         Method("Main", 0,
                Op1("aconst_null") \o Op1("arraylength") \o Op1("return_"),
                << >>)
    [] m = "Main.putfield" ->
         Method("Main", 0,
                Op3("new", "D") \o Op1("aconst_null")
                  \o Op3("putfield", "C.f") \o Op1("return_"), << >>)
    [] m = "Main.putnull" ->
         Method("Main", 0,
                Op1("aconst_null") \o Op3("new", "D")
                  \o Op3("putfield", "C.f") \o Op1("return_"), << >>)
    [] m = "Main.putobj" ->
         Method("Main", 0,
                Op3("new", "D") \o Op3("new", "Err")
                  \o Op3("putfield", "C.f") \o Op1("return_"), << >>)
    [] m = "C.s" ->
         Method("C", 0, <<Ins("return_", "none")>>,
                <<Handler(BodyEnd - 1, BodyEnd, 0, "Err")>>)
    [] m \in {"C.m", "I.m"} ->
         Method(IF m = "C.m" THEN "C" ELSE "I", 1, <<Ins("return_", "none")>>,
                << >>)
    [] OTHER ->
         \* C.clinit1, C.clinit2, Thread.uncaught
         Method(IF m = "Thread.uncaught" THEN "Thread" ELSE "C", 0,
                <<Ins("return_", "none")>>, << >>)

\* threadExceptionHandler(t, t->thread), vm.cpp:2165.
threadExceptionHandler == "Thread.uncaught"

\* methodCode(t, method): the Code object of a Method.
methodCode(m) == <<"Code", m>>

\* Every opcode of the programs, and one that is no opcode of the switch.
Instructions ==
  (UNION {{MethodTable(m).body[i] : i \in 1..Len(MethodTable(m).body)} :
            m \in EntryMethods} \ {Operand})
    \cup {Ins("unknown", "none")}

\* The length in bytes of an instruction.
Length(ins) ==
  CASE ins.op = "invokeinterface" -> 5
    [] ins.op \in {"goto_w", "jsr_w"} -> 5
    [] ins.op \in {"new", "getstatic", "putstatic", "invokestatic",
                   "invokevirtual", "invokespecial", "putfield", "goto_",
                   "jsr", "ifnull", "if_acmpeq", "if_icmple"} -> 3
    [] ins.op = "newarray" -> 2
    [] OTHER -> 1

\* run(t) is entered (vm.cpp:759-767) with t->frame a frame of an entry
\* method and t->code its Code, at ip 0 with an empty operand stack; the
\* class C has some of its initialisers still pending.
InitRun ==
  /\ InitCoordinator
  /\ NurseryUnused
  /\ ResolverUnused
  /\ \E m \in EntryMethods :
       /\ frame = <<[method |-> m, ip |-> 0, stackBase |-> 0,
                      locals |-> << >>]>>
       /\ code = methodCode(m)
  /\ ip = 0
  /\ operands = << >>
  /\ exception = Null
  /\ \E k \in 0..Len(Initialisers) :
       classInitializers =
         [c \in Classes |->
            IF c = "C"
              THEN SubSeq(Initialisers, Len(Initialisers) - k + 1,
                          Len(Initialisers))
              ELSE << >>]
  /\ running = "run"
  /\ thrown = NoThrow
  /\ ran = << >>
  /\ stored = NoStore
  /\ result = Null

\* vm.cpp:770: codeBody(t, code)[ip].  With code a Code object this is the
\* byte of the method's body at ip.  After `invoke` code is the Method
\* itself (lines 1581, 1602, 1609, 1622 and 2136 against 878 and 2144), and
\* codeBody reads a Method as if it were a Code: the byte is whatever lies
\* there, any opcode or none.
Fetch ==
  IF running # "run" THEN {}
  ELSE IF code[1] = "Code"
    THEN IF ip + 1 \in 1..Len(MethodTable(code[2]).body)
           THEN {MethodTable(code[2]).body[ip + 1]}
           ELSE {}
    ELSE IF ip < MaxIp THEN Instructions ELSE {}

\* A slot above sp that an assignment to sp brings back.
Stale == <<"stale", "none">>
\* sp = n on the operand stack ops.
Resize(ops, n) ==
  [i \in 1..n |-> IF i <= Len(ops) THEN ops[i] ELSE Stale]

\* sizeof(object), vm.cpp:13, in bytes.
BytesPerWord == 4

\* makeFrame(t, method, next, 0, stackBase, ...), vm.cpp:2136, 2167: the
\* locals are a new array, one slot for every parameter of the method, that
\* holds what the nursery held there.
makeFrame(method, stackBase) ==
  [method |-> method, ip |-> 0, stackBase |-> stackBase,
   locals |-> [i \in 1..MethodTable(method).parameterCount |-> Stale]]

\* memcpy(dst, src, n), vm.cpp:2138, on arrays of object: n bytes are
\* copied.  A slot that gets only its first k bytes from v is
\* <<"partial", v, k>>.
memcpy(dst, src, n) ==
  [i \in 1..Len(dst) |->
     LET k == n - (i - 1) * BytesPerWord
     IN  IF k >= BytesPerWord THEN src[i]
         ELSE IF k <= 0 THEN dst[i]
         ELSE <<"partial", src[i], k>>]

\* A frame chain as the methods and the ips an exception passes: the frame
\* that throws at the address of its opcode, the others at their frameIp.
Pcs(chain, at) ==
  [i \in 1..Len(chain) |->
     [method |-> chain[i].method,
      pc |-> IF i = 1 THEN at ELSE chain[i].ip]]

\* vm.cpp:2150-2153.
TypeMatches(h, exc) == h.catchType = AnyType \/ instanceOf(h.catchType, exc)

\* vm.cpp:2147-2161: the first entry of the table hs, from entry j on, that
\* takes exc; 0 when there is none.
RECURSIVE FirstHandler(_, _, _)
FirstHandler(hs, exc, j) ==
  IF j > Len(hs) THEN 0
  ELSE IF TypeMatches(hs[j], exc) THEN j
  ELSE FirstHandler(hs, exc, j + 1)

\* vm.cpp:2143-2163: the first frame of the chain, from frame i on, with
\* an entry that takes exc, as <<frame, entry>>; <<0, 0>> when there is none.
RECURSIVE Unwind(_, _, _)
Unwind(chain, exc, i) ==
  IF i > Len(chain) THEN <<0, 0>>
  ELSE LET j == FirstHandler(MethodTable(chain[i].method).handlers, exc, 1)
       IN  IF j # 0 THEN <<i, j>> ELSE Unwind(chain, exc, i + 1)

\* throw_, vm.cpp:2142-2172, reached with exception = exc and the operand
\* stack ops from the opcode at address `at`.  An exception the core made
\* (minted) went through makeTrace (vm.cpp:391-402), whose loop moves
\* t->frame along the chain until it is null.
throw_(exc, minted, ops, at) ==
  LET walked == IF minted THEN << >> ELSE frame
      sel == Unwind(walked, exc, 1)
  IN  /\ thrown' = [exc |-> objectClass(exc), minted |-> minted,
                    before |-> Pcs(frame, at), chain |-> Pcs(walked, at),
                    selected |-> sel]
      /\ exception' = Null
      /\ IF sel[1] # 0
           THEN LET f == walked[sel[1]]
                    h == MethodTable(f.method).handlers[sel[2]]
                IN  /\ frame' = SubSeq(walked, sel[1], Len(walked))
                    /\ code' = methodCode(f.method)
                    /\ operands' = Resize(ops, f.stackBase) \o <<exc>>
                    /\ ip' = h.ip
           ELSE /\ frame' = <<makeFrame(threadExceptionHandler, 0)>>
                /\ code' = methodCode(threadExceptionHandler)
                /\ operands' = <<exc>>
                /\ ip' = 0

\* invoke, vm.cpp:2125-2140, reached with code = method and ip = ipNow from
\* the opcode at address `at`.
invoke(method, parameterCount, ipNow, at) ==
  IF MethodTable(method).maxStack + Len(operands) - parameterCount > StackSize
    THEN throw_(Instance("StackOverflowError"), TRUE, operands, at)
    ELSE /\ frame' =
              <<[makeFrame(method, Len(operands) - parameterCount)
                   EXCEPT !.locals =
                     memcpy(@, SubSeq(operands,
                                      Len(operands) - parameterCount + 1,
                                      Len(operands)),
                            parameterCount)],
                [frame[1] EXCEPT !.ip = ipNow]>> \o Tail(frame)
         /\ code' = <<"Method", method>>
         /\ operands' = SubSeq(operands, 1, Len(operands) - parameterCount)
         /\ ip' = 0
         /\ UNCHANGED <<exception, thrown>>

\* The process ends: abort(t), or a read outside the operand stack or a
\* method table.
endRun(how) ==
  /\ running' = how
  /\ UNCHANGED <<frame, code, ip, operands, exception, classInitializers,
                 thrown, ran>>

\* vm.cpp:1176-1183, 1599-1606, 1871-1878, 1989-1996: the head of the
\* pending initialisers of class_ is taken off and invoked, with ip back at
\* the opcode.
interpose(class_, at) ==
  /\ Len(frame) < MaxFrames
  /\ classInitializers' = [classInitializers EXCEPT ![class_] = Tail(@)]
  /\ ran' = Append(ran, Head(classInitializers[class_]))
  /\ invoke(Head(classInitializers[class_]), 0, (at + 3) - 3, at)
  /\ UNCHANGED running

\* An opcode that pushes o and goes on.
pushAndGo(o, ins) ==
  /\ Len(operands) < MaxOperands
  /\ operands' = Append(operands, o)
  /\ ip' = ip + Length(ins)
  /\ UNCHANGED <<frame, code, exception, classInitializers, running, thrown,
                 ran>>

\* case new_, vm.cpp:1863-1881 (the class resolves).
execNew(ins) ==
  /\ ins.op = "new"
  /\ IF classInitializers[ins.arg] # << >>
       THEN interpose(ins.arg, ip)
       ELSE pushAndGo(Instance(ins.arg), ins)
  /\ UNCHANGED <<startup, initialising, coordinator, nursery, resolver, written>>

\* case getstatic, vm.cpp:1168-1186 (the field resolves; its value is null).
execGetstatic(ins) ==
  /\ ins.op = "getstatic"
  /\ IF classInitializers[ins.arg] # << >>
       THEN interpose(ins.arg, ip)
       ELSE pushAndGo(Null, ins)
  /\ UNCHANGED <<startup, initialising, coordinator, nursery, resolver, written>>

\* case putstatic, vm.cpp:1981-2000 (the field resolves).
execPutstatic(ins) ==
  /\ ins.op = "putstatic"
  /\ IF classInitializers[ins.arg] # << >>
       THEN interpose(ins.arg, ip)
       ELSE IF operands = << >>
         THEN endRun("crash")
         ELSE /\ operands' = SubSeq(operands, 1, Len(operands) - 1)
              /\ ip' = ip + Length(ins)
              /\ UNCHANGED <<frame, code, exception, classInitializers,
                             running, thrown, ran>>
  /\ UNCHANGED <<startup, initialising, coordinator, nursery, resolver, written>>

\* case invokestatic, vm.cpp:1591-1610 (the method resolves).
execInvokestatic(ins) ==
  /\ ins.op = "invokestatic"
  /\ LET method == ins.arg
         class_ == MethodTable(method).class
     IN  IF classInitializers[class_] # << >>
           THEN interpose(class_, ip)
           ELSE /\ Len(frame) < MaxFrames
                /\ invoke(method, MethodTable(method).parameterCount,
                          ip + 3, ip)
                /\ UNCHANGED <<classInitializers, running, ran>>
  /\ UNCHANGED <<startup, initialising, coordinator, nursery, resolver, written>>

\* stack[sp - parameterCount], vm.cpp:1555, 1575, 1621.
Receiver(parameterCount) == operands[Len(operands) - parameterCount + 1]

\* findVirtualMethod and findInterfaceMethod, vm.cpp:525-550: C and its
\* subclass D have C.m in the slot of the method, for I.m too; "none" for
\* a receiver of another class.
DispatchedMethod(method, o) ==
  IF objectClass(o) \in {"C", "D"} THEN "C.m" ELSE "none"

\* The invoke opcodes with a receiver, as far as they are the same:
\* vm.cpp:1554-1563, 1574-1588, 1620-1629, with the method found (or "none"
\* if there is none) and ip past the operands.
invokeOn(method, found, ipNow, missing) ==
  LET parameterCount == MethodTable(method).parameterCount
  IN  IF Len(operands) < parameterCount
        THEN endRun("crash")
      ELSE IF Receiver(parameterCount) = Null
        THEN /\ throw_(Instance("NullPointerException"), TRUE, operands, ip)
             /\ UNCHANGED <<classInitializers, running, ran>>
      ELSE IF found = "none"
        THEN endRun(missing)
      ELSE /\ Len(frame) < MaxFrames
           /\ invoke(found, parameterCount, ipNow, ip)
           /\ UNCHANGED <<classInitializers, running, ran>>

\* case invokevirtual, vm.cpp:1612-1630.
execInvokevirtual(ins) ==
  /\ ins.op = "invokevirtual"
  /\ LET parameterCount == MethodTable(ins.arg).parameterCount
     IN  invokeOn(ins.arg,
                  IF Len(operands) < parameterCount THEN "none"
                  ELSE DispatchedMethod(ins.arg, Receiver(parameterCount)),
                  ip + 3, "crash")
  /\ UNCHANGED <<startup, initialising, coordinator, nursery, resolver, written>>

\* case invokeinterface, vm.cpp:1544-1564: findInterfaceMethod aborts when
\* the receiver's class does not implement the interface (line 536).
execInvokeinterface(ins) ==
  /\ ins.op = "invokeinterface"
  /\ LET parameterCount == MethodTable(ins.arg).parameterCount
     IN  invokeOn(ins.arg,
                  IF Len(operands) < parameterCount THEN "none"
                  ELSE DispatchedMethod(ins.arg, Receiver(parameterCount)),
                  ip + 5, "abort")
  /\ UNCHANGED <<startup, initialising, coordinator, nursery, resolver, written>>

\* isSpecialMethod, vm.cpp:571-578, for a method that is not <init> in a
\* class with ACC_SUPER.
isSpecialMethod(method, class_) ==
  isSuperclass(MethodTable(method).class, class_)

\* case invokespecial, vm.cpp:1566-1589.
execInvokespecial(ins) ==
  /\ ins.op = "invokespecial"
  /\ LET class_ == MethodTable(frame[1].method).class
     IN  invokeOn(ins.arg,
                  IF isSpecialMethod(ins.arg, class_)
                    THEN DispatchedMethod(ins.arg, Instance(classSuper(class_)))
                    ELSE ins.arg,
                  ip + 3, "crash")
  /\ UNCHANGED <<startup, initialising, coordinator, nursery, resolver, written>>

\* case athrow, vm.cpp:938-944.
execAthrow(ins) ==
  /\ ins.op = "athrow"
  /\ IF operands = << >>
       THEN endRun("crash")
       ELSE LET top == operands[Len(operands)]
                ops == SubSeq(operands, 1, Len(operands) - 1)
            IN  /\ IF top = Null
                     THEN throw_(Instance("NullPointerException"), TRUE, ops,
                                 ip)
                     ELSE throw_(top, FALSE, ops, ip)
                /\ UNCHANGED <<classInitializers, running, ran>>
  /\ UNCHANGED <<startup, initialising, coordinator, nursery, resolver, written>>

\* case aconst_null, vm.cpp:816-818.
execAconstNull(ins) ==
  /\ ins.op = "aconst_null"
  /\ pushAndGo(Null, ins)
  /\ UNCHANGED <<startup, initialising, coordinator, nursery, resolver, written>>

\* case return_, vm.cpp:2006-2016.
execReturn(ins) ==
  /\ ins.op = "return_"
  /\ frame' = Tail(frame)
  /\ IF Tail(frame) # << >>
       THEN /\ code' = methodCode(frame[2].method)
            /\ ip' = frame[2].ip
            /\ UNCHANGED running
       ELSE /\ code' = NoCode
            /\ running' = "returned"
            /\ UNCHANGED ip
  /\ UNCHANGED <<operands, exception, classInitializers, thrown, ran>>
  /\ UNCHANGED <<startup, initialising, coordinator, nursery, resolver, written>>

\* default: abort(t), vm.cpp:2122.
execUnknown(ins) ==
  /\ ins.op = "unknown"
  /\ endRun("abort")
  /\ UNCHANGED <<startup, initialising, coordinator, nursery, resolver, written>>

\* An opcode that leaves the operand stack as ops and goes on at newIp.
goOn(ops, newIp) ==
  /\ operands' = ops
  /\ ip' = newIp
  /\ UNCHANGED <<frame, code, exception, classInitializers, running, thrown,
                 ran, stored, result>>

\* The operand stack without its top n slots.
Popped(n) == SubSeq(operands, 1, Len(operands) - n)

\* A 32 bit word that is below 2^31 as a number.
ToInt(w) == w[1] * Half + w[2]

\* vm.cpp:1192, 1202, 1686, 1696: the new ip of a taken branch whose opcode
\* is at ip.  The operand bytes have been read, so `ip - 1` is the address
\* of the last of them, and the bytes are joined as they are.
branch(ins) ==
  LET b == OffsetBytes(ins.arg)
  IN  IF Len(b) = 2
        THEN ((ip + 3) - 1) + (b[1] * 256 + b[2])
        ELSE ToInt(Add32(Word32((ip + 5) - 1),
                         <<b[1] * 256 + b[2], b[3] * 256 + b[4]>>))

\* case iconst_0, iconst_1, vm.cpp:1288-1294.
execIconst(ins) ==
  /\ ins.op \in {"iconst_0", "iconst_1"}
  /\ pushAndGo(makeInt(IF ins.op = "iconst_0" THEN 0 ELSE 1), ins)
  /\ UNCHANGED <<startup, initialising, coordinator, nursery, resolver, written>>

\* case goto_, goto_w, vm.cpp:1188-1203.
execGoto(ins) ==
  /\ ins.op \in {"goto_", "goto_w"}
  /\ goOn(operands, branch(ins))
  /\ UNCHANGED <<startup, initialising, coordinator, nursery, resolver>>

\* case jsr, jsr_w, vm.cpp:1681-1698.
execJsr(ins) ==
  /\ ins.op \in {"jsr", "jsr_w"}
  /\ Len(operands) < MaxOperands
  /\ goOn(Append(operands, makeInt(ip + Length(ins))), branch(ins))
  /\ UNCHANGED <<startup, initialising, coordinator, nursery, resolver>>

\* case ifnull, vm.cpp:1492-1501.
execIfnull(ins) ==
  /\ ins.op = "ifnull"
  /\ IF operands = << >>
       THEN endRun("crash") /\ UNCHANGED written
       ELSE goOn(Popped(1),
                 IF operands[Len(operands)] = Null THEN branch(ins)
                 ELSE ip + 3)
  /\ UNCHANGED <<startup, initialising, coordinator, nursery, resolver>>

\* case if_acmpeq, vm.cpp:1319-1329.
execIfAcmpeq(ins) ==
  /\ ins.op = "if_acmpeq"
  /\ IF Len(operands) < 2
       THEN endRun("crash") /\ UNCHANGED written
       ELSE LET b == operands[Len(operands)]
                a == operands[Len(operands) - 1]
            IN  goOn(Popped(2), IF a = b THEN branch(ins) ELSE ip + 3)
  /\ UNCHANGED <<startup, initialising, coordinator, nursery, resolver>>

\* case if_icmple, vm.cpp:1403-1413.  intValue of an object that is no Int
\* reads a word of it, of null it reads address 0.
execIfIcmple(ins) ==
  /\ ins.op = "if_icmple"
  /\ IF Len(operands) < 2
          \/ operands[Len(operands)] = Null
          \/ operands[Len(operands) - 1] = Null
       THEN endRun("crash") /\ UNCHANGED written
       ELSE LET b == operands[Len(operands)]
                a == operands[Len(operands) - 1]
            IN  \E taken \in IF typeOf(a) = "int" /\ typeOf(b) = "int"
                               THEN {intValue(a) < intValue(b)}
                               ELSE BOOLEAN :
                  goOn(Popped(2), IF taken THEN branch(ins) ELSE ip + 3)
  /\ UNCHANGED <<startup, initialising, coordinator, nursery, resolver>>

\* case newarray, vm.cpp:1883-1940, for a type byte the switch knows.
execNewarray(ins) ==
  /\ ins.op = "newarray"
  /\ IF operands = << >> \/ operands[Len(operands)] = Null
       THEN endRun("crash") /\ UNCHANGED written
     ELSE IF typeOf(operands[Len(operands)]) # "int"
       THEN endRun("crash") /\ UNCHANGED written
     ELSE IF intValue(operands[Len(operands)]) >= 0
       THEN goOn(Append(Popped(1), Array(intValue(operands[Len(operands)]))),
                 ip + 2)
       ELSE /\ throw_(Instance("NegativeArrayStoreException"), TRUE,
                      Popped(1), ip)
            /\ UNCHANGED <<classInitializers, running, ran, stored, result>>
  /\ UNCHANGED <<startup, initialising, coordinator, nursery, resolver>>

\* case arraylength, vm.cpp:888-901: the block of the case is followed by
\* abort(t), not by goto loop.
execArraylength(ins) ==
  /\ ins.op = "arraylength"
  /\ IF operands = << >>
       THEN endRun("crash") /\ UNCHANGED written
     ELSE IF operands[Len(operands)] = Null
       THEN /\ throw_(Instance("NullPointerException"), TRUE, Popped(1), ip)
            /\ UNCHANGED <<classInitializers, running, ran, stored, result>>
       ELSE /\ operands' =
                 Append(Popped(1),
                        IF typeOf(operands[Len(operands)]) = "array"
                          THEN makeInt(operands[Len(operands)][2])
                          ELSE Stale)
            /\ ip' = ip + 1
            /\ running' = "abort"
            /\ UNCHANGED <<frame, code, exception, classInitializers, thrown,
                           ran, stored, result>>
  /\ UNCHANGED <<startup, initialising, coordinator, nursery, resolver>>

\* case putfield, vm.cpp:1963-1979 (the field resolves).
execPutfield(ins) ==
  /\ ins.op = "putfield"
  /\ IF operands = << >>
       THEN endRun("crash") /\ UNCHANGED written
       ELSE LET instance == operands[Len(operands)]
            IN  IF instance = Null
                  THEN /\ throw_(Instance("NullPointerException"), TRUE,
                                 Popped(1), ip)
                       /\ UNCHANGED <<classInitializers, running, ran, stored,
                                      result>>
                ELSE IF Len(operands) < 2
                  THEN endRun("crash") /\ UNCHANGED written
                ELSE /\ stored' = [instance |-> instance, field |-> ins.arg,
                                   value |-> operands[Len(operands) - 1]]
                     /\ operands' = Popped(2)
                     /\ ip' = ip + 3
                     /\ UNCHANGED <<frame, code, exception, classInitializers,
                                    running, thrown, ran, result>>
  /\ UNCHANGED <<startup, initialising, coordinator, nursery, resolver>>

\* case areturn, ireturn, lreturn, vm.cpp:873-886.
execAreturn(ins) ==
  /\ ins.op \in {"areturn", "ireturn", "lreturn"}
  /\ IF Tail(frame) # << >>
       THEN /\ frame' = Tail(frame)
            /\ code' = methodCode(frame[2].method)
            /\ ip' = frame[2].ip
            /\ UNCHANGED <<operands, running, result>>
     ELSE IF operands = << >>
       THEN /\ running' = "crash"
            /\ UNCHANGED <<frame, code, ip, operands, result>>
       ELSE /\ frame' = Tail(frame)
            /\ result' = operands[Len(operands)]
            /\ operands' = Popped(1)
            /\ code' = NoCode
            /\ running' = "returned"
            /\ UNCHANGED ip
  /\ UNCHANGED <<exception, classInitializers, thrown, ran, stored>>
  /\ UNCHANGED <<startup, initialising, coordinator, nursery, resolver>>

NextRun ==
  \/ \E ins \in Fetch : execNew(ins)
  \/ \E ins \in Fetch : execGetstatic(ins)
  \/ \E ins \in Fetch : execPutstatic(ins)
  \/ \E ins \in Fetch : execInvokestatic(ins)
  \/ \E ins \in Fetch : execInvokevirtual(ins)
  \/ \E ins \in Fetch : execInvokeinterface(ins)
  \/ \E ins \in Fetch : execInvokespecial(ins)
  \/ \E ins \in Fetch : execAthrow(ins)
  \/ \E ins \in Fetch : execAconstNull(ins)
  \/ \E ins \in Fetch : execReturn(ins)
  \/ \E ins \in Fetch : execUnknown(ins)
  \/ \E ins \in Fetch : execIconst(ins)
  \/ \E ins \in Fetch : execGoto(ins)
  \/ \E ins \in Fetch : execJsr(ins)
  \/ \E ins \in Fetch : execIfnull(ins)
  \/ \E ins \in Fetch : execIfAcmpeq(ins)
  \/ \E ins \in Fetch : execIfIcmple(ins)
  \/ \E ins \in Fetch : execNewarray(ins)
  \/ \E ins \in Fetch : execArraylength(ins)
  \/ \E ins \in Fetch : execPutfield(ins)
  \/ \E ins \in Fetch : execAreturn(ins)

SpecRun == InitRun /\ [][NextRun]_vars

\* ------------------------------------------------------- class resolution

\* How many classes parseClass makes at most.
MaxParsed == 3

\* rawArrayLength(t, map) of the class map, a power of two (vm.cpp:645).
MapBuckets == 2

\* The shapes a constant-pool slot and the class of a reference take.
ByteArray(name) == <<"ByteArray", name>>
Class(i) == <<"Class", i>>
Reference(class_, name) == <<"Reference", class_, name>>
Field(class_, name) == <<"Field", class_, name>>

\* byteArrayBody of the class names used, without the final 0.
NameBytes(name) ==
  CASE name = "C" -> <<67>>
    [] name = "E" -> <<69>>
    [] name = "X" -> <<88>>

\* hash, vm.cpp:621-627 (the names are short: no 32 bit overflow).
RECURSIVE hashFrom(_, _, _)
hashFrom(bytes, i, h) ==
  IF i > Len(bytes) THEN h ELSE hashFrom(bytes, i + 1, h * 31 + bytes[i])
hash(name) == hashFrom(NameBytes(name), 1, 0)

\* byteArrayEqual, vm.cpp:629-639.
byteArrayEqual(a, b) ==
  a = b \/ (Len(NameBytes(a)) = Len(NameBytes(b)) /\ NameBytes(a) = NameBytes(b))

\* The classes classFinder->find has bytes for, and the members parseClass
\* puts into the field and method tables of each.
OnClasspath == {"C", "E"}
ClassMembers(name) == IF name = "C" THEN {"f"} ELSE {}

\* The constant pool before any resolution.
InitPool ==
  <<ByteArray("C"), ByteArray("X"), Reference(ByteArray("C"), "f"),
    Reference(ByteArray("E"), "g")>>

\* The first value of the chain whose key equals key, vm.cpp:646-653.
RECURSIVE chainFind(_, _, _)
chainFind(chain, key, i) ==
  IF i > Len(chain) THEN Null
  ELSE IF byteArrayEqual(chain[i][1], key) THEN chain[i][2]
  ELSE chainFind(chain, key, i + 1)

\* hashMapFind that looks at the head of the chain only.
hashMapFind_HeadOnly(map, h, key) ==
  LET chain == map[(h % MapBuckets) + 1]
  IN  IF chain # << >> /\ byteArrayEqual(chain[1][1], key) THEN chain[1][2]
      ELSE Null

\* hashMapFind, vm.cpp:641-655.
hashMapFind(map, h, key) == chainFind(map[(h % MapBuckets) + 1], key, 1)

\* hashMapInsert, vm.cpp:657-669: the map after it.
hashMapInsert(map, h, key, value) ==
  [map EXCEPT ![(h % MapBuckets) + 1] = <<<<key, value>>>> \o @]

\* The machine with an empty class map and the pool of one method; every
\* thread is outside the resolution functions.
InitResolve ==
  /\ InitCoordinator
  /\ NurseryUnused
  /\ InterpreterUnused
  /\ classMap = [b \in 1..MapBuckets |-> << >>]
  /\ parsed = << >>
  /\ classLock = NULL
  /\ pool = InitPool
  /\ resolving = [t \in Threads |-> NotResolving]
  /\ effects = [t \in Threads |-> {}]
  /\ resolvedAs = {}

\* A thread overran a function or read an object as one of another type.
Crashed == \E t \in Threads : resolving[t].at = "crash"

\* resolveClass(t, pool, index), vm.cpp:697-710, up to its call of
\* resolveClass(t, o).
callResolveClass(t, index) ==
  /\ ~Crashed
  /\ resolving[t].at = "idle"
  /\ typeOf(pool[index]) \in {"ByteArray", "Class"}
  /\ resolving' =
       [resolving EXCEPT ![t] =
          IF typeOf(pool[index]) = "ByteArray"
            THEN [NotResolving EXCEPT !.at = "acquire",
                    !.fn = "resolveClass", !.slot = index,
                    !.spec = pool[index][2]]
            ELSE [NotResolving EXCEPT !.at = "return",
                    !.fn = "resolved", !.slot = index,
                    !.result = pool[index]]]
  /\ effects' = [effects EXCEPT ![t] = {}]
  /\ UNCHANGED <<classMap, parsed, classLock, pool, resolvedAs>>
  /\ UNCHANGED <<startup, initialising, coordinator, nursery, interpreter>>

\* resolve(t, pool, index, find), vm.cpp:727-744, up to the call of
\* resolveClass(t, o) inside resolveClass(t, o, referenceClass) (712-725).
callResolve(t, index) ==
  /\ ~Crashed
  /\ resolving[t].at = "idle"
  /\ typeOf(pool[index]) \in {"Reference", "Field"}
  /\ resolving' =
       [resolving EXCEPT ![t] =
          IF typeOf(pool[index]) = "Field"
            THEN [NotResolving EXCEPT !.at = "return", !.fn = "resolved",
                    !.slot = index, !.result = pool[index]]
          ELSE IF typeOf(pool[index][2]) = "ByteArray"
            THEN [NotResolving EXCEPT !.at = "acquire", !.fn = "resolve",
                    !.slot = index, !.spec = pool[index][2][2]]
            ELSE [NotResolving EXCEPT !.at = "member", !.fn = "resolve",
                    !.slot = index, !.class_ = pool[index][2]]]
  /\ effects' = [effects EXCEPT ![t] = {}]
  /\ UNCHANGED <<classMap, parsed, classLock, pool, resolvedAs>>
  /\ UNCHANGED <<startup, initialising, coordinator, nursery, interpreter>>

\* ACQUIRE(t, t->vm->classLock), vm.cpp:675.
acquireClassLock(t) ==
  /\ ~Crashed
  /\ resolving[t].at = "acquire"
  /\ classLock = NULL
  /\ classLock' = t
  /\ resolving' = [resolving EXCEPT ![t].at = "find"]
  /\ UNCHANGED <<classMap, parsed, pool, effects, resolvedAs>>
  /\ UNCHANGED <<startup, initialising, coordinator, nursery, interpreter>>

\* vm.cpp:677-679.
findClass(t) ==
  /\ ~Crashed
  /\ resolving[t].at = "find"
  /\ LET class_ == hashMapFind(classMap, hash(resolving[t].spec),
                               resolving[t].spec)
     IN  resolving' =
           [resolving EXCEPT ![t].class_ = class_,
              ![t].at = IF typeOf(class_) = "Class" THEN "release"
                        ELSE "load"]
  /\ UNCHANGED <<classMap, parsed, classLock, pool, effects, resolvedAs>>
  /\ UNCHANGED <<startup, initialising, coordinator, nursery, interpreter>>

\* vm.cpp:680-692.  hashMapInsert has the return type object and no return
\* statement: its caller goes on, or control runs off the function's end.
loadClass(t) ==
  /\ ~Crashed
  /\ resolving[t].at = "load"
  /\ IF resolving[t].spec \in OnClasspath
       THEN /\ Len(parsed) < MaxParsed
            /\ parsed' = Append(parsed, resolving[t].spec)
            /\ classMap' = hashMapInsert(classMap, hash(resolving[t].spec),
                                         resolving[t].spec,
                                         Class(Len(parsed) + 1))
            /\ effects' = [effects EXCEPT ![t] = @ \cup {"classMap"}]
            /\ \E after \in {"release", "crash"} :
                 resolving' =
                   [resolving EXCEPT ![t].class_ = Class(Len(parsed) + 1),
                                     ![t].at = after]
       ELSE /\ resolving' =
                 [resolving EXCEPT ![t].exception = "ClassNotFoundException",
                                   ![t].at = "release"]
            /\ UNCHANGED <<classMap, parsed, effects>>
  /\ UNCHANGED <<classLock, pool, resolvedAs>>
  /\ UNCHANGED <<startup, initialising, coordinator, nursery, interpreter>>

\* vm.cpp:693-694: resolveClass(t, spec) returns class_ and the monitor is
\* released.
releaseClassLock(t) ==
  /\ ~Crashed
  /\ resolving[t].at = "release"
  /\ classLock' = NULL
  /\ resolvedAs' =
       IF typeOf(resolving[t].class_) = "Class"
         THEN resolvedAs \cup {<<resolving[t].spec, resolving[t].class_>>}
         ELSE resolvedAs
  /\ resolving' = [resolving EXCEPT ![t].at = "store"]
  /\ UNCHANGED <<classMap, parsed, pool, effects>>
  /\ UNCHANGED <<startup, initialising, coordinator, nursery, interpreter>>

\* vm.cpp:705-707 in resolveClass(t, pool, index) and 720-722 in
\* resolveClass(t, container, class_): the test of t->exception and the set.
\* The container is the reference the slot held at the call; a slot that
\* another thread has resolved since no longer shows it.
storeClass(t) ==
  /\ ~Crashed
  /\ resolving[t].at = "store"
  /\ LET r == resolving[t]
     IN  IF r.exception # "none"
           THEN /\ resolving' = [resolving EXCEPT ![t].at = "return"]
                /\ UNCHANGED <<pool, effects>>
         ELSE IF r.fn = "resolveClass"
           THEN /\ pool' = [pool EXCEPT ![r.slot] = r.class_]
                /\ effects' = [effects EXCEPT ![t] = @ \cup {"slot"}]
                /\ resolving' = [resolving EXCEPT ![t].at = "return",
                                                  ![t].result = r.class_]
           ELSE /\ pool' =
                     IF typeOf(pool[r.slot]) = "Reference"
                       THEN [pool EXCEPT ![r.slot][2] = r.class_]
                       ELSE pool
                /\ effects' = [effects EXCEPT ![t] = @ \cup {"reference"}]
                /\ resolving' = [resolving EXCEPT ![t].at = "member"]
  /\ UNCHANGED <<classMap, parsed, classLock, resolvedAs>>
  /\ UNCHANGED <<startup, initialising, coordinator, nursery, interpreter>>

\* vm.cpp:736-741 with find, 581-606: the slot is read again, and what
\* another thread has resolved since is read as a reference.
findMember(t) ==
  /\ ~Crashed
  /\ resolving[t].at = "member"
  /\ LET r == resolving[t]
         reference == pool[r.slot]
     IN  IF typeOf(reference) # "Reference"
           THEN /\ \E outcome \in {"return", "crash"} :
                     resolving' =
                       [resolving EXCEPT ![t].at = outcome,
                                         ![t].exception = "NoSuchFieldError"]
                /\ UNCHANGED <<pool, effects>>
         ELSE IF reference[3] \in ClassMembers(parsed[r.class_[2]])
           THEN /\ pool' = [pool EXCEPT
                              ![r.slot] = Field(r.class_, reference[3])]
                /\ effects' = [effects EXCEPT ![t] = @ \cup {"slot"}]
                /\ resolving' =
                     [resolving EXCEPT ![t].at = "return",
                        ![t].result = Field(r.class_, reference[3])]
           ELSE /\ resolving' =
                     [resolving EXCEPT ![t].at = "return",
                                       ![t].exception = "NoSuchFieldError"]
                /\ UNCHANGED <<pool, effects>>
  /\ UNCHANGED <<classMap, parsed, classLock, resolvedAs>>
  /\ UNCHANGED <<startup, initialising, coordinator, nursery, interpreter>>

\* The caller has the result (vm.cpp:1868-1869, 1970-1971) and goes on;
\* throw_ clears t->exception.
resolveReturn(t) ==
  /\ ~Crashed
  /\ resolving[t].at = "return"
  /\ resolving' = [resolving EXCEPT ![t] = NotResolving]
  /\ effects' = [effects EXCEPT ![t] = {}]
  /\ UNCHANGED <<classMap, parsed, classLock, pool, resolvedAs>>
  /\ UNCHANGED <<startup, initialising, coordinator, nursery, interpreter>>

NextResolve ==
  \E t \in Threads :
    \/ \E index \in 1..Len(InitPool) : callResolveClass(t, index)
    \/ \E index \in 1..Len(InitPool) : callResolve(t, index)
    \/ acquireClassLock(t)
    \/ findClass(t)
    \/ loadClass(t)
    \/ releaseClassLock(t)
    \/ storeClass(t)
    \/ findMember(t)
    \/ resolveReturn(t)

SpecResolve == InitResolve /\ [][NextResolve]_vars

\* ------------------------------------ class resolution by mutator threads
\* The threads of the coordinator resolving classes: a thread enters
\* ActiveState, allocates, and calls resolveClass(t, pool, index); inside the
\* class monitor, hashMapInsert allocates the triple of the new entry
\* (vm.cpp:666) through allocate (316-328), which may ask for ExclusiveState.

\* The slots the threads resolve: a class that can be loaded and one that
\* cannot.
LoadSlots == {1, 2}

\* The size of the requests made to allocate.
LoadSize == HeapSize \div 2

InitLoad ==
  /\ InitCoordinator
  /\ NurseryUnused
  /\ InterpreterUnused
  /\ classMap = [b \in 1..MapBuckets |-> << >>]
  /\ parsed = << >>
  /\ classLock = NULL
  /\ pool = InitPool
  /\ resolving = [t \in Threads |-> NotResolving]
  /\ effects = [t \in Threads |-> {}]
  /\ resolvedAs = {}

\* A new thread becomes a mutator: enter(t, ActiveState).
startThread(t) ==
  /\ state[t] = NoState
  /\ callEnter(t, ActiveState)

\* A mutator outside the resolution functions allocates.
mutatorAllocate(t) ==
  /\ resolving[t].at = "idle"
  /\ callAllocate(t, LoadSize)

\* A mutator calls resolveClass(t, pool, index), vm.cpp:1868.
mutatorResolveClass(t, index) ==
  /\ ~aborted
  /\ state[t] = ActiveState
  /\ stack[t] = << >>
  /\ callResolveClass(t, index)

\* vm.cpp:680-685 and 689-692: the class bytes are looked for; parseClass
\* makes the class when they are found.
loadFind(t) ==
  /\ ~Crashed
  /\ ~aborted
  /\ resolving[t].at = "load"
  /\ resolving' =
       IF resolving[t].spec \in OnClasspath
         THEN [resolving EXCEPT ![t].at = "triple"]
         ELSE [resolving EXCEPT ![t].exception = "ClassNotFoundException",
                                ![t].at = "release"]
  /\ UNCHANGED <<classMap, parsed, classLock, pool, effects, resolvedAs>>
  /\ UNCHANGED <<startup, initialising, coordinator, nursery, interpreter>>

\* vm.cpp:688 and 666: hashMapInsert calls makeTriple, which calls
\* allocate(t, size): the poll of vm.cpp:319-323, made with the class monitor
\* held.
loadAllocate(t) ==
  /\ ~Crashed
  /\ ~aborted
  /\ resolving[t].at = "triple"
  /\ stack[t] = << >>
  /\ Touch(t, {<<"read", "exclusive", "allocate">>})
  /\ \E seen \in PollOutcomes(t) :
       IF NurseryFull(heapIndex[t], LoadSize) \/ seen
         THEN stack' = [stack EXCEPT ![t] = <<Frame("maybeYield", LoadSize),
                                              Frame("a_bump", LoadSize)>>]
         ELSE stack' = [stack EXCEPT ![t] = <<Frame("a_bump", LoadSize)>>]
  /\ resolving' = [resolving EXCEPT ![t].at = "insert"]
  /\ UNCHANGED <<state, heapIndex, machine, monitor, aborted>>
  /\ UNCHANGED <<classMap, parsed, classLock, pool, effects, resolvedAs>>
  /\ UNCHANGED <<nursery, interpreter, startup, initialising>>

\* vm.cpp:668 and 688: allocate has returned the triple; it becomes the head
\* of its chain.  hashMapInsert has no return statement.
loadInsert(t) ==
  /\ ~Crashed
  /\ ~aborted
  /\ resolving[t].at = "insert"
  /\ stack[t] = << >>
  /\ Len(parsed) < MaxParsed
  /\ parsed' = Append(parsed, resolving[t].spec)
  /\ classMap' = hashMapInsert(classMap, hash(resolving[t].spec),
                               resolving[t].spec, Class(Len(parsed) + 1))
  /\ effects' = [effects EXCEPT ![t] = @ \cup {"classMap"}]
  /\ \E after \in {"release", "crash"} :
       resolving' = [resolving EXCEPT ![t].class_ = Class(Len(parsed) + 1),
                                      ![t].at = after]
  /\ UNCHANGED <<classLock, pool, resolvedAs>>
  /\ UNCHANGED <<startup, initialising, coordinator, nursery, interpreter>>

\* One step of thread t inside resolveClass.
loadStep(t) ==
  \/ ~aborted /\ acquireClassLock(t)
  \/ ~aborted /\ findClass(t)
  \/ loadFind(t)
  \/ loadAllocate(t)
  \/ loadInsert(t)
  \/ ~aborted /\ releaseClassLock(t)
  \/ ~aborted /\ storeClass(t)
  \/ ~aborted /\ resolveReturn(t)

\* One step of thread t inside enter or allocate.  No thread leaves the
\* machine here, so enter is not called for ExitState; and line 207 is not
\* reached, because maybeYieldAndMaybeCollect calls enter(t, ExclusiveState)
\* holding the state monitor since its own test of exclusive (302-310).
loadCoordinatorStep(t) ==
  \/ ~Crashed /\ enterSwitch(t)
  \/ ~Crashed /\ enterExclusiveLoop(t)
  \/ ~Crashed /\ enterExclusiveWait(t)
  \/ ~Crashed /\ enterActiveLoop(t)
  \/ ~Crashed /\ enterReturn(t)
  \/ ~Crashed /\ waitReturn(t)
  \/ ~Crashed /\ maybeYieldStart(t)
  \/ ~Crashed /\ maybeYieldLoop(t)
  \/ ~Crashed /\ maybeYieldLoop2(t)
  \/ ~Crashed /\ maybeYieldCollect(t)
  \/ ~Crashed /\ maybeYieldReturn(t)
  \/ ~Crashed /\ allocateBump(t)

NextLoad ==
  \E t \in Threads :
    \/ startThread(t)
    \/ mutatorAllocate(t)
    \/ \E index \in LoadSlots : mutatorResolveClass(t, index)
    \/ loadStep(t)
    \/ loadCoordinatorStep(t)

SpecLoad == InitLoad /\ [][NextLoad]_vars

\* A fair scheduler: a thread that can take a step inside a call, again and
\* again, takes one.
FairLoadSpec ==
  /\ SpecLoad
  /\ \A t \in Threads :
       /\ SF_vars(loadStep(t))
       /\ SF_vars(loadCoordinatorStep(t))

\* ------------------------------------------- setting the machine up
\* init(Machine*, ...) and init(Thread*, Machine*), vm.cpp:116-146, called
\* by the embedder on memory that holds anything.

\* What a counter and a thread's state hold before anything was stored.
RawCounts == {0, 1}
RawStates == {NoState, ActiveState}

InitStartup ==
  /\ sys \in {0} \cup Handles
  /\ heap \in {0, 1}
  /\ classFinder \in {0, 1}
  /\ locks \in [LockNames -> {0, 1}]
  /\ booted = "raw"
  /\ state \in [Threads -> RawStates]
  /\ exclusive \in {NULL} \cup Threads
  /\ activeCount \in RawCounts
  /\ liveCount \in RawCounts
  /\ heapIndex = [t \in Threads |-> 0]
  /\ owner = NULL
  /\ depth = 0
  /\ waitStatus = [t \in Threads |-> "none"]
  /\ saved = [t \in Threads |-> 0]
  /\ stack = [t \in Threads |-> << >>]
  /\ aborted = FALSE
  /\ unguarded = {}
  /\ NurseryUnused
  /\ InterpreterUnused
  /\ ResolverUnused
  /\ TriggersUnused

\* init(Machine* m, sys, heap, classFinder), vm.cpp:116-130: the machine is
\* zeroed, the three arguments are stored and the three monitors are made;
\* sys->abort() when one of them cannot be made.
initMachine(s, h, f) ==
  /\ booted = "raw"
  /\ sys' = s
  /\ heap' = h
  /\ classFinder' = f
  /\ exclusive' = NULL
  /\ activeCount' = 0
  /\ liveCount' = 0
  /\ \E made \in BOOLEAN :
       /\ locks' = [l \in LockNames |-> IF made THEN 1 ELSE 0]
       /\ booted' = IF made THEN "machine" ELSE "abort"
  /\ UNCHANGED <<state, heapIndex, monitor, stack, aborted, unguarded>>
  /\ UNCHANGED <<nursery, interpreter, resolver, initialising>>

\* init(Thread* t, Machine* m), vm.cpp:139-146.  The memset of line 142
\* zeroes sizeof(Thread) bytes from m on: the whole machine and what lies
\* behind it, which is not the machine's (a thread lying there has its state
\* zeroed, NoState being 0), or the process dies in the write.  Then
\* t->vm, m->rootThread and t->state are assigned.
initThread(t) ==
  /\ booted \in {"machine", "thread"}
  /\ \/ /\ booted' = "thread"
        /\ sys' = 0
        /\ heap' = 0
        /\ classFinder' = 0
        /\ locks' = [l \in LockNames |-> 0]
        /\ exclusive' = NULL
        /\ activeCount' = 0
        /\ liveCount' = 0
        /\ classMap' = << >>
        /\ rootThread' = t
        /\ \E behind \in SUBSET (Threads \ {t}) :
             state' = [u \in Threads |->
                         IF u = t \/ u \in behind THEN NoState ELSE state[u]]
     \/ /\ booted' = "crash"
        /\ UNCHANGED <<sys, heap, classFinder, locks, exclusive, activeCount,
                       liveCount, classMap, rootThread, state>>
  /\ UNCHANGED <<heapIndex, monitor, stack, aborted, unguarded>>
  /\ UNCHANGED <<next, heapIndex32, sp, protector, visited, allocated, calls,
                 ended>>
  /\ UNCHANGED <<parsed, classLock, pool, resolving, effects, resolvedAs>>
  /\ UNCHANGED <<interpreter, initialising>>

NextStartup ==
  \/ \E s, h, f \in Handles : initMachine(s, h, f)
  \/ \E t \in Threads : initThread(t)

SpecStartup == InitStartup /\ [][NextStartup]_vars

\* ------------------------------- class initialisers and several threads
\* Threads in ActiveState that execute new, getstatic, putstatic and
\* invokestatic on class C.  No monitor is taken between the read of the
\* list of initialisers and the store of its rest, so the two are steps of
\* their own.

\* The class the threads use.
TriggeredClass == "C"

\* The opcodes that read classInitializers.
TriggerOps == {"new", "getstatic", "putstatic", "invokestatic"}

InitTrigger ==
  /\ InitCoordinator
  /\ NurseryUnused
  /\ ResolverUnused
  /\ frame = << >>
  /\ code = NoCode
  /\ ip = 0
  /\ operands = << >>
  /\ exception = Null
  /\ \E k \in 1..Len(Initialisers) :
       classInitializers =
         [c \in Classes |->
            IF c = TriggeredClass
              THEN SubSeq(Initialisers, Len(Initialisers) - k + 1,
                          Len(Initialisers))
              ELSE << >>]
  /\ running = "returned"
  /\ thrown = NoThrow
  /\ ran = << >>
  /\ stored = NoStore
  /\ result = Null

\* vm.cpp:1176, 1599, 1871, 1989: object p = classInitializers(t, class_).
\* With no initialiser left the opcode does its work and the thread goes on.
triggerRead(t, op) ==
  /\ trigger[t].at = "idle"
  /\ trigger' =
       [trigger EXCEPT ![t] =
          IF classInitializers[TriggeredClass] = << >>
            THEN [at |-> "done", op |-> op, p |-> << >>]
            ELSE [at |-> "read", op |-> op,
                  p |-> classInitializers[TriggeredClass]]]
  /\ UNCHANGED <<ranBy, startup, coordinator, nursery, interpreter, resolver>>

\* vm.cpp:1873-1877 (1178-1182, 1601-1605, 1991-1995) and invoke, 2125-2140:
\* the rest of the list that was read is stored, and a frame is made for
\* its head.
triggerPop(t) ==
  /\ trigger[t].at = "read"
  /\ classInitializers' =
       [classInitializers EXCEPT ![TriggeredClass] = Tail(trigger[t].p)]
  /\ ranBy' = Append(ranBy, <<t, Head(trigger[t].p)>>)
  /\ trigger' = [trigger EXCEPT ![t].at = "initialiser"]
  /\ UNCHANGED <<frame, code, ip, operands, exception, running, thrown, ran,
                 stored, result>>
  /\ UNCHANGED <<startup, coordinator, nursery, resolver>>

\* The initialiser's frame is left and the opcode, to which ip was set
\* back (ip -= 3), is executed again.
triggerAgain(t) ==
  /\ trigger[t].at = "initialiser"
  /\ trigger' = [trigger EXCEPT ![t] = NotTriggered]
  /\ UNCHANGED <<ranBy, startup, coordinator, nursery, interpreter, resolver>>

NextTrigger ==
  \E t \in Threads :
    \/ \E op \in TriggerOps : triggerRead(t, op)
    \/ triggerPop(t)
    \/ triggerAgain(t)

SpecTrigger == InitTrigger /\ [][NextTrigger]_vars

\* ---------------------------------------------------------------- claims
\* Thread t is in its exclusive phase: enter(t, ExclusiveState) has returned
\* and t has not left ExclusiveState.
InExclusivePhase(t) ==
  /\ state[t] = ExclusiveState
  /\ ~InEnter(t, ExclusiveState)

\* Thread t is inside enter(t, ExclusiveState) past line 211, in the loop
\* that waits for activeCount to drop to 1.
AwaitingExclusive(t) ==
  /\ stack[t] # << >>
  /\ Top(t).pc = "x_wait"

Isolated(t) ==
  /\ activeCount = 1
  /\ \A u \in Threads \ {t} : state[u] # ActiveState

\* C1: while a thread is in its exclusive phase (from the return of
\* enter(t, ExclusiveState) until t leaves ExclusiveState) activeCount is 1
\* and no other thread is in ActiveState; a thread about to run collect in
\* maybeYieldAndMaybeCollect is in its exclusive phase.
C1_ExclusivePhaseIsolation ==
  ~aborted =>
    \A t \in Threads :
      /\ InExclusivePhase(t) => Isolated(t)
      /\ (stack[t] # << >> /\ Top(t).pc = "m_collect") => InExclusivePhase(t)

\* A thread is about to collect while another thread, which gave way at its
\* safepoint poll, sleeps in IdleState.
C1_Witness ==
  \E t, u \in Threads :
    /\ t # u
    /\ At(t, "m_collect")
    /\ state[u] = IdleState
    /\ waitStatus[u] = "waiting"
    /\ InEnter(u, ActiveState)

\* C2, as stated: whenever some thread is in ExclusiveState, no other thread
\* is in ActiveState or ExclusiveState.
C2_Original ==
  \A t, u \in Threads :
    (t # u /\ state[t] = ExclusiveState)
      => state[u] \notin {ActiveState, ExclusiveState}

\* C2, amended: whenever some thread is in ExclusiveState no other thread is
\* in ExclusiveState, and another thread is in ActiveState only while the
\* first is still inside enter, waiting for activeCount to drop to 1.
C2_Amended ==
  ~aborted =>
    \A t, u \in Threads :
      (t # u /\ state[t] = ExclusiveState)
        => /\ state[u] # ExclusiveState
           /\ state[u] = ActiveState => AwaitingExclusive(t)

\* A thread has set itself exclusive and sleeps until the other, still in
\* ActiveState, gives way.
C2_Witness ==
  \E t, u \in Threads :
    /\ t # u
    /\ state[t] = ExclusiveState
    /\ waitStatus[t] = "waiting"
    /\ state[u] = ActiveState

\* C3, as stated: machine.exclusive # null implies activeCount = 1 and the
\* thread machine.exclusive points to is in ExclusiveState.
C3_Original ==
  exclusive # NULL =>
    activeCount = 1 /\ state[exclusive] = ExclusiveState

\* C3, amended: machine.exclusive # null implies that the thread it points to
\* is in ExclusiveState and that activeCount is at least 1; activeCount is 1
\* once that thread has left the loop that waits for it.
C3_Amended ==
  (~aborted /\ exclusive # NULL) =>
    /\ state[exclusive] = ExclusiveState
    /\ activeCount >= 1
    /\ activeCount > 1 => AwaitingExclusive(exclusive)

\* machine.exclusive is set while two threads are counted active.
C3_Witness ==
  /\ exclusive # NULL
  /\ activeCount = 2
  /\ waitStatus[exclusive] = "waiting"

\* C4: under a fair scheduler every call enter(t, ExclusiveState) eventually
\* returns (unless the process aborts), when every other thread in
\* ActiveState goes on to call allocate or to leave ActiveState.
C4_ExclusiveEventuallyReturns ==
  \A t \in Threads :
    InEnter(t, ExclusiveState) ~> (~InEnter(t, ExclusiveState) \/ aborted)

\* The condition the wait() thread t sleeps in is looping on.
WaitGuard(t) ==
  CASE Top(t).pc = "x_wait" -> ExclusiveWaitGuard
    [] Top(t).pc = "a_loop" -> ActiveWaitGuard
    [] Top(t).pc = "q_wait" -> ExitWaitGuard

\* C5: every transition that makes the condition of a sleeping thread false
\* wakes the sleepers: whenever the state monitor is free, a thread that
\* sleeps in wait() and has not been notified still has its condition true.
C5_NoLostWakeup ==
  (~aborted /\ owner = NULL) =>
    \A t \in Threads : waitStatus[t] = "waiting" => WaitGuard(t)

\* The frames of t's stack that hold the state monitor through a
\* MonitorResource: every frame of enter, and the frames of
\* maybeYieldAndMaybeCollect past line 300.
HoldingLabels == EnterLabels \cup {"m_loop", "m_loop2", "m_collect", "m_ret"}
HoldingFrames(t) ==
  Cardinality({i \in 1..Len(stack[t]) : stack[t][i].pc \in HoldingLabels})

\* C6, as stated: no thread acquires the state monitor while it holds it,
\* that is, the monitor is never held at a depth above 1.
C6_Original == depth <= 1

\* C6, amended: a thread does acquire the state monitor while it holds it
\* (maybeYieldAndMaybeCollect calling enter, enter(ExclusiveState) calling
\* enter), so the monitor has to count; it is held at most 2 deep, one level
\* for every call of enter or maybeYieldAndMaybeCollect in progress, and is
\* free when its last holder's outermost such call has returned.
C6_Amended ==
  ~aborted =>
    /\ depth <= 2
    /\ owner = NULL => depth = 0
    /\ \A t \in Threads :
         /\ owner = t => depth = HoldingFrames(t)
         /\ waitStatus[t] # "none" => saved[t] = HoldingFrames(t)
         /\ (owner # t /\ waitStatus[t] = "none") => HoldingFrames(t) = 0

\* The monitor is held 2 deep, by a thread that has called enter from
\* maybeYieldAndMaybeCollect or from enter(t, ExclusiveState).
C6_Witness ==
  /\ depth = 2
  /\ \E t \in Threads :
       /\ owner = t
       /\ Len(stack[t]) >= 2
       /\ stack[t][2].pc \in {"m_loop2", "m_collect", "m_ret", "x_loop2"}

\* C7, as stated: no allocate call completes (advances heapIndex) at a moment
\* when machine.exclusive is set to another thread.
C7_Original ==
  [][\A t \in Threads :
       heapIndex'[t] > heapIndex[t] => exclusive \in {NULL, t}]_vars

\* C7, amended: no allocate call completes while another thread is in its
\* exclusive phase, and maybeYieldAndMaybeCollect never returns while
\* machine.exclusive is set.  (An allocate whose poll found exclusive null
\* may complete after another thread has set exclusive and while that thread
\* still waits for activeCount to drop to 1.)
C7_Amended ==
  [][\A t \in Threads :
       /\ heapIndex'[t] > heapIndex[t]
            => \A u \in Threads \ {t} : ~InExclusivePhase(u)
       /\ (At(t, "m_ret") /\ stack'[t] # stack[t]) => exclusive = NULL]_vars

\* A thread is about to complete an allocate call whose poll it passed, and
\* machine.exclusive is set to another thread.
C7_Witness ==
  \E t, u \in Threads :
    /\ t # u
    /\ At(t, "a_bump")
    /\ state[t] = ActiveState
    /\ exclusive = u

\* The counters count the threads: activeCount those in ActiveState or
\* ExclusiveState, liveCount those in ActiveState, IdleState, ExclusiveState
\* or ExitState.
CountersMatchStates ==
  /\ activeCount =
       Cardinality({t \in Threads : state[t] \in {ActiveState, ExclusiveState}})
  /\ liveCount =
       Cardinality({t \in Threads :
                      state[t] \in {ActiveState, IdleState, ExclusiveState,
                                    ExitState}})

\* C8: with a wait() that may return at any time without a notifyAll, a
\* thread in its exclusive phase is still isolated, the counters still count
\* the threads, and a thread that has left a wait loop of enter found the
\* loop's condition false.
C8_SpuriousWakeupsBenign ==
  ~aborted =>
    /\ CountersMatchStates
    /\ \A t \in Threads :
         /\ InExclusivePhase(t) => Isolated(t)
         /\ (stack[t] # << >> /\ Top(t).pc = "e_ret"
               /\ Top(t).arg = ExclusiveState) => ~ExclusiveWaitGuard
         /\ (stack[t] # << >> /\ Top(t).pc = "e_ret"
               /\ Top(t).arg = ExitState) => ~ExitWaitGuard

\* A wait() in the loop of line 213 has returned without a notifyAll while
\* another thread is still active.
C8_Witness ==
  \E t \in Threads :
    /\ waitStatus[t] = "spurious"
    /\ Top(t).pc = "x_wait"
    /\ ExclusiveWaitGuard

\* C9, as stated: no access to activeCount, liveCount or exclusive is made by
\* a thread that does not hold the state monitor.
C9_Original == unguarded = {}

\* C9, amended: every write of activeCount, liveCount and exclusive, and every
\* read of them except the read of exclusive in allocate's poll (line 320),
\* is made by a thread that holds the state monitor.
C9_Amended == unguarded \subseteq {<<"read", "exclusive", "allocate">>}

\* A thread has polled machine.exclusive in allocate while another thread
\* held the state monitor.
C9_Witness ==
  /\ unguarded = {<<"read", "exclusive", "allocate">>}
  /\ \E t \in Threads :
       /\ stack[t] # << >>
       /\ Top(t).pc = "a_bump"
       /\ owner \notin {NULL, t}

\* C10: enter(t, ExitState) returns only when liveCount <= 1 and no other
\* thread is live (in ActiveState, IdleState, ExclusiveState or ExitState).
C10_ExitIsJoin ==
  ~aborted =>
    \A t \in Threads :
      (stack[t] # << >> /\ Top(t).pc = "e_ret" /\ Top(t).arg = ExitState)
        => /\ liveCount <= 1
           /\ \A u \in Threads \ {t} :
                state[u] \notin {ActiveState, IdleState, ExclusiveState,
                                 ExitState}

\* enter(t, ExitState) returns after it has waited for another thread, which
\* is a zombie now.
C10_Witness ==
  \E t, u \in Threads :
    /\ t # u
    /\ At(t, "e_ret")
    /\ Top(t).arg = ExitState
    /\ state[u] = ZombieState

\* Every thread but t is out of the count of live threads: it is a zombie, or
\* it has not become active yet.
OthersGone(t) ==
  \A u \in Threads \ {t} : state[u] \in {NoState, ZombieState}

\* C11: under a fair scheduler a thread inside enter(t, ExitState) returns
\* once every other live thread has entered ZombieState (unless the process
\* aborts, or a thread that was not live yet becomes active in the meantime):
\* the last transition to ZombieState decrements liveCount and notifies.
C11_ExitJoinLiveness ==
  \A t \in Threads :
    (InEnter(t, ExitState) /\ OthersGone(t))
      ~> (~InEnter(t, ExitState) \/ ~OthersGone(t) \/ aborted)

\* A thread that slept in the loop of line 283 has been notified by the
\* other thread's transition to ZombieState.
C11_Witness ==
  \E t, u \in Threads :
    /\ t # u
    /\ stack[t] # << >>
    /\ Top(t).pc = "q_wait"
    /\ waitStatus[t] = "notified"
    /\ state[u] = ZombieState
    /\ liveCount = 1

\* The transitions C12 lists as illegal.
IllegalTransition(from, to) ==
  /\ to # from
  /\ \/ from \in {ZombieState, ExitState}
     \/ from = NoState /\ to \in {IdleState, ZombieState, ExclusiveState,
                                  ExitState}
     \/ from = IdleState /\ to \in {ExclusiveState, ExitState}
     \/ to = NoState

\* C12: enter(t, s) with s # t.state aborts whenever t is in ZombieState or
\* ExitState, and for NoState -> Idle, Zombie, Exclusive, Exit, for
\* Idle -> Exclusive, Exit and for any -> NoState; the step that aborts
\* leaves activeCount, liveCount, exclusive and every t.state as they were.
C12_IllegalTransitionsFatal ==
  [][\A t \in Threads :
       (/\ At(t, "e_switch")
        /\ IllegalTransition(state[t], Top(t).arg)
        /\ stack'[t] # stack[t])
         => /\ aborted'
            /\ UNCHANGED <<activeCount, liveCount, exclusive, state>>]_vars

\* The process has aborted with every thread a zombie: the call that
\* aborted was an enter of a thread in ZombieState, and the counters are
\* those of a machine without active or live threads.
C12_Witness ==
  /\ aborted
  /\ \A t \in Threads : state[t] = ZombieState
  /\ activeCount = 0
  /\ liveCount = 0

\* C13: enter(t, ZombieState) called by a thread in IdleState, while no
\* other thread is in a call, decrements liveCount, notifies and leaves t in
\* ZombieState, without aborting and without changing activeCount.
C13_IdleToZombieAllowed ==
  [][\A t \in Threads :
       (/\ At(t, "e_switch")
        /\ state[t] = IdleState
        /\ Top(t).arg = ZombieState
        /\ \A u \in Threads \ {t} : stack[u] = << >>
        /\ stack'[t] # stack[t])
         => /\ ~aborted'
            /\ state'[t] = ZombieState
            /\ liveCount' = liveCount - 1
            /\ activeCount' = activeCount]_vars

\* C14: for every size > HeapSize and every heapIndex in [0, HeapSize],
\* allocate(t, size) aborts: it neither returns a pointer nor advances
\* heapIndex, the wrap-around of heapIndex + size taken into account.
C14_OversizedAllocationFatal ==
  (/\ allocated.outcome # "none"
   /\ Greater32(allocated.size, HeapSize32)
   /\ GreaterEq32(HeapSize32, allocated.from))
    => /\ allocated.outcome = "abort"
       /\ heapIndex32[allocated.thread] = allocated.from

\* C15: after any sequence of allocate calls with sizes <= HeapSize by any
\* threads of the machine, a call returns the region [offset, offset + size)
\* of the caller's nursery with offset + size <= HeapSize, and heapIndex is
\* at most HeapSize for every thread.
C15_NurseryBounds ==
  (allocated.small /\ allocated.outcome = "pointer")
    => /\ GreaterEq32(HeapSize32, Add32(allocated.offset, allocated.size))
       /\ GreaterEq32(HeapSize32, allocated.offset)
       /\ \A t \in Threads : GreaterEq32(HeapSize32, heapIndex32[t])

\* The addresses C16 says iterate(t, v) visits, in order.
RootsOf(t) ==
  <<<<"thread">>, <<"frame">>, <<"code">>, <<"exception">>>>
    \o [i \in 1..sp[t] |-> <<"stack", i - 1>>] \o protector[t]

\* C16: iterate(t, v) visits the addresses of t.thread, t.frame, t.code and
\* t.exception, then the address of every operand stack slot stack[i] with
\* 0 <= i < sp once, then the p of every Protector of t's list.
C16_RootScan ==
  [][\A t \in Threads :
       (visited'[t] # visited[t] /\ visited'[t] # << >>)
         => visited'[t] = RootsOf(t)]_vars


\* A handler-table entry whose range covers the address pc.
Covers(h, pc) == h.startPc <= pc /\ pc < h.endPc

\* The first entry of the table hs, from entry j on, whose range covers pc
\* and whose catchType takes exc; 0 when there is none.
RECURSIVE FirstCovering(_, _, _, _)
FirstCovering(hs, exc, pc, j) ==
  IF j > Len(hs) THEN 0
  ELSE IF Covers(hs[j], pc) /\ TypeMatches(hs[j], exc) THEN j
  ELSE FirstCovering(hs, exc, pc, j + 1)

\* The handler C17 says unwinding selects for exc along a chain of
\* [method, pc], from frame i on, as <<frame, entry>>; <<0, 0>> when no
\* frame has one.
RECURSIVE Selected(_, _, _)
Selected(chain, exc, i) ==
  IF i > Len(chain) THEN <<0, 0>>
  ELSE LET j == FirstCovering(MethodTable(chain[i].method).handlers, exc,
                              chain[i].pc, 1)
       IN  IF j # 0 THEN <<i, j>> ELSE Selected(chain, exc, i + 1)

\* C17: for a thrown exception and the frame chain it unwinds, the handler
\* selected is the first entry of the innermost frame whose range covers the
\* throwing ip and whose catchType is 0 or a class of the exception, moving
\* outward only when a frame has none; an entry whose range does not cover
\* the ip is never selected.
C17_HandlerSelection ==
  thrown.exc # "none"
    => thrown.selected = Selected(thrown.chain, Instance(thrown.exc), 1)

\* C18: an exception the core made goes through the handler table like
\* athrow: when a frame of the chain current at the throw has a matching
\* handler, control goes to a handler and not to the uncaught-exception
\* handler.
C18_MintedExceptionsCaught ==
  (thrown.minted /\ Selected(thrown.before, Instance(thrown.exc), 1) # <<0, 0>>)
    => thrown.selected # <<0, 0>>

\* The method an invoke instruction runs on the receiver it finds.
Target(ins) ==
  IF ins.op = "invokestatic" THEN ins.arg
  ELSE IF ins.op = "invokespecial"
         /\ ~isSpecialMethod(ins.arg, MethodTable(frame[1].method).class)
    THEN ins.arg
  ELSE DispatchedMethod(ins.arg,
                        Receiver(MethodTable(ins.arg).parameterCount))

\* An invoke instruction, fetched from a method's bytecode, that finds its
\* target (its receiver, if it takes one, is on the stack and not null).
Invokes(ins) ==
  /\ code[1] = "Code"
  /\ ins.op \in {"invokevirtual", "invokeinterface", "invokespecial",
                 "invokestatic"}
  /\ ins.op # "invokestatic"
       => /\ Len(operands) >= MethodTable(ins.arg).parameterCount
          /\ Receiver(MethodTable(ins.arg).parameterCount) # Null
  /\ Target(ins) # "none"

\* C19: on each of invokevirtual, invokeinterface, invokespecial and
\* invokestatic, when the class of the target method has pending
\* initialisers, the head initialiser is taken off the list and its frame is
\* made, with the invoking instruction to be executed again, before any
\* frame of the target method.
C19_InterpositionOnEveryInvoke ==
  [][\A ins \in Fetch :
       (/\ Invokes(ins)
        /\ classInitializers[MethodTable(Target(ins)).class] # << >>)
         => LET class_ == MethodTable(Target(ins)).class
            IN  /\ classInitializers'[class_]
                     = Tail(classInitializers[class_])
                /\ Len(frame') = Len(frame) + 1
                /\ frame'[1].method = Head(classInitializers[class_])
                /\ frame'[2].ip = ip]_vars

\* The methods of the initialiser list.
IsInitialiser(m) == \E i \in 1..Len(Initialisers) : Initialisers[i] = m

\* The opcodes that take the initialisers of a class first.
Triggers == {"new", "getstatic", "putstatic", "invokestatic"}

\* The class a triggering instruction is on.
TriggerClass(ins) ==
  IF ins.op = "invokestatic" THEN MethodTable(ins.arg).class ELSE ins.arg

\* C20: in one thread, a new, getstatic, putstatic or invokestatic on a
\* class with pending initialisers runs each of them exactly once in list
\* order: the head is taken off the list and run, the frame of an
\* initialiser executes the initialiser's bytecode, its return resumes at
\* the ip of the triggering opcode, and a triggering opcode on a class whose
\* list is empty executes normally and runs no initialiser.
C20_InitialisersRunOnce ==
  [][/\ \A ins \in Fetch :
          (code[1] = "Code" /\ ins.op \in Triggers)
            => IF classInitializers[TriggerClass(ins)] # << >>
                 THEN /\ ran' = Append(ran,
                                   Head(classInitializers[TriggerClass(ins)]))
                      /\ classInitializers'[TriggerClass(ins)]
                           = Tail(classInitializers[TriggerClass(ins)])
                      /\ frame'[1].method
                           = Head(classInitializers[TriggerClass(ins)])
                      /\ frame'[2].ip = ip
                 ELSE ran' = ran /\ classInitializers' = classInitializers
     /\ (running = "run" /\ IsInitialiser(frame[1].method))
          => /\ ip + 1 \in 1..Len(MethodTable(frame[1].method).body)
             /\ Fetch = {MethodTable(frame[1].method).body[ip + 1]}
             /\ (Len(frame') < Len(frame) /\ running' = "run")
                  => /\ frame' = Tail(frame)
                     /\ ip' = frame[2].ip
                     /\ \E ins \in Fetch' : ins.op \in Triggers]_vars


\* How often a name is a key of the class map.
KeyCount(name) ==
  Cardinality({<<b, i>> \in (1..MapBuckets) \X (1..MaxParsed + 1) :
                 i <= Len(classMap[b]) /\ classMap[b][i][1] = name})

\* C21: any two successful resolveClass calls for the same name, by the
\* same or by different threads, return the same Class object; a class is
\* parsed once and is in the class map once; resolving a slot that is
\* resolved already returns the object stored there and writes nothing.
C21_ResolutionIdempotent ==
  /\ \A p, q \in resolvedAs : p[1] = q[1] => p[2] = q[2]
  /\ \A i, j \in 1..Len(parsed) : parsed[i] = parsed[j] => i = j
  /\ \A i \in 1..Len(parsed) : KeyCount(parsed[i]) = 1
  /\ \A t \in Threads :
       (resolving[t].at = "return" /\ resolving[t].fn = "resolved")
         => /\ resolving[t].result = pool[resolving[t].slot]
            /\ resolving[t].exception = "none"
            /\ effects[t] = {}

\* Two threads hold the class that resolveClass returned to each of them
\* for the same name, with two classes parsed.
C21_Witness ==
  \E t, u \in Threads :
    /\ t # u
    /\ resolving[t].at = "store" /\ resolving[u].at = "store"
    /\ resolving[t].spec = resolving[u].spec
    /\ typeOf(resolving[t].class_) = "Class"
    /\ typeOf(resolving[u].class_) = "Class"
    /\ Len(parsed) >= 2

\* C22: a resolveClass, resolveField or resolveMethod call that fails sets
\* t.exception, returns null and has written nothing: not the class map,
\* not the slot, not the reference held in the slot.
C22_FailureHasNoPartialEffect ==
  \A t \in Threads :
    (resolving[t].at = "return" /\ resolving[t].exception # "none"
       /\ typeOf(pool[resolving[t].slot]) \in {"ByteArray", "Reference"})
      => /\ resolving[t].result = Null
         /\ effects[t] = {}


\* C23: at every opcode boundary the operand stack pointer is within the
\* executing frame's part of the stack: stackBase <= sp <= stackBase +
\* maxStack of the executing method.
C23_StackDiscipline ==
  (running = "run" /\ frame # << >>)
    => /\ frame[1].stackBase <= Len(operands)
       /\ Len(operands)
            <= frame[1].stackBase + MethodTable(frame[1].method).maxStack

\* C24: makeTrace returns one (method, ip) entry for every frame of the
\* chain and leaves t.frame and the chain as they were: the chain that
\* throw_ walks after an exception was made is the chain before it was made.
C24_MakeTraceIsSnapshot ==
  thrown.minted => thrown.chain = thrown.before

\* C25: after a successful invoke with parameterCount = n the new frame has
\* stackBase = old sp - n, its caller link is the invoking frame with the
\* return ip saved, ip = 0, sp = stackBase, and locals[i] of the new frame
\* is the caller's stack[old sp - n + i] for every i < n.
C25_FrameEntry ==
  [][Len(frame') = Len(frame) + 1
       => LET n == MethodTable(frame'[1].method).parameterCount
              base == Len(operands) - n
          IN  /\ frame'[1].stackBase = base
              /\ Tail(Tail(frame')) = Tail(frame)
              /\ frame'[2].method = frame[1].method
              /\ \E ins \in Fetch :
                   frame'[2].ip \in {ip, ip + Length(ins)}
              /\ ip' = 0
              /\ Len(operands') = base
              /\ \A i \in 1..n : frame'[1].locals[i] = operands[base + i]]_vars

\* The opcodes that return a value.
ValueReturns == {"areturn", "ireturn", "lreturn"}

\* C26: a value return into a caller frame pops the value from the
\* callee's stack and resumes the caller at its saved ip with sp = callee
\* stackBase + 1 and the value on top, whatever else the callee left on its
\* stack; with no caller, run returns the popped value.
C26_ValueReturn ==
  [][\A ins \in Fetch :
       (/\ ins.op \in ValueReturns
        /\ execAreturn(ins)
        /\ Len(operands) > frame[1].stackBase)
         => IF Tail(frame) # << >>
              THEN /\ frame' = Tail(frame)
                   /\ ip' = frame[2].ip
                   /\ operands' =
                        Append(SubSeq(operands, 1, frame[1].stackBase),
                               operands[Len(operands)])
              ELSE /\ running' = "returned"
                   /\ result' = operands[Len(operands)]]_vars

\* The offset of a branch as the signed big-endian number its operand
\* bytes are.
SignedOffset(ins) ==
  LET b == OffsetBytes(ins.arg)
  IN  IF Len(b) = 2
        THEN IF b[1] >= 128 THEN (b[1] * 256 + b[2]) - Half
             ELSE b[1] * 256 + b[2]
        ELSE IF b[1] >= 128
          THEN (((b[1] - 256) * 256 + b[2]) * 256 + b[3]) * 256 + b[4]
          ELSE ((b[1] * 256 + b[2]) * 256 + b[3]) * 256 + b[4]

\* A branch instruction whose branch is taken in this state.
Taken(ins) ==
  \/ ins.op \in {"goto_", "goto_w", "jsr", "jsr_w"}
  \/ ins.op = "ifnull" /\ operands # << >>
       /\ operands[Len(operands)] = Null
  \/ ins.op = "if_acmpeq" /\ Len(operands) >= 2
       /\ operands[Len(operands)] = operands[Len(operands) - 1]

\* C27: a taken branch at opcode address a sets ip = a + s, s being the
\* operand bytes read as a signed big-endian integer of 16 bits (32 bits for
\* goto_w and jsr_w).
C27_BranchTarget ==
  [][\A ins \in Fetch :
       (/\ Taken(ins)
        /\ \/ execGoto(ins) \/ execJsr(ins) \/ execIfnull(ins)
           \/ execIfAcmpeq(ins))
         => ip' = ip + SignedOffset(ins)]_vars

\* C28: if_icmple pops b, then a, and takes the branch if and only if
\* a <= b.
C28_IfIcmple ==
  [][\A ins \in Fetch :
       (/\ ins.op = "if_icmple"
        /\ execIfIcmple(ins)
        /\ Len(operands) >= 2
        /\ typeOf(operands[Len(operands)]) = "int"
        /\ typeOf(operands[Len(operands) - 1]) = "int")
         => /\ operands' = Popped(2)
            /\ (ip' # ip + 3)
                 <=> (intValue(operands[Len(operands) - 1])
                        <= intValue(operands[Len(operands)]))]_vars

\* C29: arraylength on an array pops it, pushes an Int equal to its length
\* and execution goes on with the next instruction; on null it raises
\* NullPointerException.
C29_Arraylength ==
  [][\A ins \in Fetch :
       (/\ ins.op = "arraylength"
        /\ execArraylength(ins)
        /\ operands # << >>)
         => LET array == operands[Len(operands)]
            IN  /\ typeOf(array) = "array"
                     => /\ operands' = Append(Popped(1), makeInt(array[2]))
                        /\ ip' = ip + 1
                        /\ running' = "run"
                /\ array = Null
                     => /\ thrown' # thrown
                        /\ thrown'.exc = "NullPointerException"]_vars

\* C30: with the operand stack ending in objectref, value, putfield stores
\* value into the named field of objectref and pops both; it raises
\* NullPointerException if and only if objectref is null.
C30_PutfieldOperandOrder ==
  [][\A ins \in Fetch :
       (/\ ins.op = "putfield"
        /\ execPutfield(ins)
        /\ Len(operands) >= 2)
         => LET value == operands[Len(operands)]
                objectref == operands[Len(operands) - 1]
            IN  IF objectref = Null
                  THEN /\ thrown'.exc = "NullPointerException"
                       /\ thrown'.minted
                       /\ stored' = stored
                  ELSE /\ stored' = [instance |-> objectref,
                                     field |-> ins.arg, value |-> value]
                       /\ operands' = Popped(2)
                       /\ thrown' = thrown]_vars


\* C31: when two threads resolve the same unresolved slot in any
\* interleaving, both return the same resolved member, and find is never
\* handed a slot value that is a resolved Field, Method or Class already.
C31_ConcurrentSlotResolution ==
  /\ \A t, u \in Threads :
       (/\ resolving[t].at = "return" /\ resolving[u].at = "return"
        /\ resolving[t].slot = resolving[u].slot
        /\ resolving[t].exception = "none"
        /\ resolving[u].exception = "none")
         => resolving[t].result = resolving[u].result
  /\ \A t \in Threads :
       resolving[t].at = "member"
         => typeOf(pool[resolving[t].slot]) = "Reference"

\* Thread a holds the class monitor and is inside the enter(t,
\* ExclusiveState) of an allocation, and thread b, in ActiveState, is about
\* to acquire the class monitor.
ClassMonitorStandoff(a, b) ==
  /\ a # b
  /\ classLock = a
  /\ InEnter(a, ExclusiveState)
  /\ state[b] = ActiveState
  /\ resolving[b].at = "acquire"

\* C32: when thread a, holding the class monitor inside resolveClass, asks
\* for ExclusiveState from an allocation while thread b is in ActiveState
\* blocked on the class monitor, both go on: b gets the class monitor in
\* the end (which a must have released).
C32_NoClassMonitorDeadlock ==
  \A a, b \in Threads :
    ClassMonitorStandoff(a, b) ~> (classLock = b \/ Crashed)

\* How many threads are in one of the states of S.
InStates(S) == Cardinality({t \in Threads : state[t] \in S})

\* C33: whenever the state monitor is free (released, or given up by a
\* wait), activeCount is the number of threads in ActiveState or
\* ExclusiveState and liveCount the number of threads in ActiveState,
\* IdleState, ExclusiveState or ExitState; liveCount grows only in the step
\* that takes a thread from NoState to ActiveState, and by one; neither
\* counter goes below zero.
C33_CountersTrackStates ==
  /\ [](owner = NULL
          => /\ activeCount = InStates({ActiveState, ExclusiveState})
             /\ liveCount = InStates({ActiveState, IdleState, ExclusiveState,
                                      ExitState}))
  /\ [](activeCount >= 0 /\ liveCount >= 0)
  /\ [][liveCount' > liveCount
          => /\ liveCount' = liveCount + 1
             /\ \E t \in Threads :
                  /\ state[t] = NoState
                  /\ state'[t] = ActiveState
                  /\ \A u \in Threads \ {t} : state'[u] = state[u]]_vars

\* The monitor is free with one thread waiting in ExitState, one in
\* IdleState, and both still counted as live.
C33_Witness ==
  /\ owner = NULL
  /\ ~aborted
  /\ liveCount = 2
  /\ activeCount = 0
  /\ \E t, u \in Threads :
       /\ state[t] = ExitState /\ waitStatus[t] = "waiting"
       /\ state[u] = IdleState

\* C34: init(Thread* t, Machine* m) changes only t and m.rootThread: when
\* it has returned, sys, heap, classFinder, the three monitors, activeCount,
\* liveCount, exclusive and classMap of the machine are what they were
\* before the call, and t is in NoState.
C34_InitThreadFrame ==
  [][\A t \in Threads :
       (initThread(t) /\ booted' = "thread")
         => /\ sys' = sys
            /\ heap' = heap
            /\ classFinder' = classFinder
            /\ locks' = locks
            /\ activeCount' = activeCount
            /\ liveCount' = liveCount
            /\ exclusive' = exclusive
            /\ classMap' = classMap
            /\ state'[t] = NoState]_vars

\* C35: however two threads that execute new, getstatic, putstatic or
\* invokestatic on a class with pending initialisers interleave, every
\* initialiser of the list is popped and run once, by one thread.
C35_InitialisersRunOnceConcurrently ==
  \A i, j \in 1..Len(ranBy) : ranBy[i][2] = ranBy[j][2] => i = j

\* C36: at every instruction fetch t.code is the Code attribute of the
\* method of the executing frame, whichever way the frame was reached:
\* entered through invoke, resumed by a return, or resumed by the match of
\* an exception handler.
C36_CurrentCodeConsistency ==
  (running = "run" /\ frame # << >>) => code = methodCode(frame[1].method)

====
